---- MODULE Spec2Model ----
(***************************************************************************)
(* Content identity and recommendation subsystem of the UkrFix SEO bot:    *)
(* slug generation (src/src/utils/slugify.py), title optimisation          *)
(* (src/src/utils/title_optimizer.py), the published-article history       *)
(* (src/src/utils/history.py), the html helpers                            *)
(* (src/src/utils/content_enhancer.py), the posted table                   *)
(* (src/src/database.py) and the main loop (src/src/bot.py).               *)
(*                                                                         *)
(* A text is a sequence of characters and a character is a string.  ASCII  *)
(* characters stand for themselves.  Characters outside ASCII carry a      *)
(* label: "uk_yi" is the Cyrillic letter ї, "UK_YI" is Ї, "lat_i_uml" is   *)
(* the Latin letter ï, "en_dash" is –, "em_dash" is —.                     *)
(***************************************************************************)
EXTENDS Integers, Sequences, FiniteSets, TLC

VARIABLES
    to_latin,       \* slugify.to_latin: the module global bound at import time
    text,           \* argument of generate_slug
    max_length,     \* argument of generate_slug
    slug_pc,        \* position of the caller of generate_slug
    transliterated_text, \* transliterate_uk(text) inside generate_slug(text, max_length)
    slug,           \* result of generate_slug(text, max_length)
    reslug,         \* result of generate_slug(slug, max_length)
    again,          \* result of a later generate_slug(text, max_length)
    raw_title,      \* argument of optimize_title
    title_limit,    \* argument max_length of optimize_title
    title_pc,       \* position of the caller of optimize_title
    chosen_title,   \* optimize_title(...)[0]
    title_case,     \* optimize_title(...)[1]
    sentence_case,  \* optimize_title(...)[2]
    history_records,\* the record list handed to history.py (bot.py: load_history())
    article,        \* the ArticleData of the cycle: title, slug, tags, category
    alt_title,      \* the article's title in another letter case and padding
    max_links,      \* argument of find_internal_links
    hist_pc,        \* position of the caller of history.py
    dup_result,     \* is_duplicate_title(article.title, history_records)
    alt_dup_result, \* is_duplicate_title(alt_title, history_records)
    links,          \* find_internal_links(article, history_records, max_links)
    link_sources,   \* for each link, the index of the record it was built from
    raw_html,       \* the cleaned html generate_article holds before the CTA step
    internal_links,      \* the links handed to inject_internal_links
    content_pc,     \* position of the caller of content_enhancer.py
    cta_html,       \* ensure_cta_block(raw_html)
    cta_html_again, \* ensure_cta_block(cta_html)
    linked_html,    \* inject_internal_links(cta_html, internal_links)
    linked_raw_html,\* inject_internal_links(raw_html, internal_links)
    history_file,   \* HISTORY_FILE: whether it exists and can be opened, its text
    store_records,  \* the record list in memory (history_records of main)
    store_pc,       \* position of the process: boot, ready, writing, stopped
    write_rest,     \* the pieces the running json.dump has still to write
    load_raised,    \* whether the last load_history call raised
    recovered,      \* the last load_history call followed a stop during a save
    saved_over,     \* what load_history gave from the file the last save replaced
    saved_list,     \* the list the last save_history call was given
    add_called,     \* add_article_record was called
    add_existed,    \* the slug of its article was in its list
    add_before,     \* the list it was given
    add_file_before,\* HISTORY_FILE before the call
    add_saved,      \* it called save_history
    add_returned,   \* the list it returned
    posted,         \* the posted table of history.db: the combinations marked
    task,           \* the combination select_task returned in this cycle
    bot_article,    \* the article generate_article returned in this cycle
    bot_links,      \* internal_links of this cycle
    bot_pc,         \* position of main in its loop
    cycle_end,      \* how the last cycle ended, "none" while one runs
    read_dup,       \* this cycle ran the duplicate-title check on the history
    read_links,     \* this cycle ran find_internal_links on the history
    publish_called, \* this cycle called publish_article
    published_ok,   \* and the call returned a post
    marked,         \* this cycle called mark_posted
    added,          \* this cycle called add_article_record
    posted_at_start,\* the posted table when the cycle began
    file_at_start,  \* HISTORY_FILE when the cycle began
    records_at_start,\* the list in memory when the cycle began
    published_titles,\* the normalized titles of the articles published in this run
    published_twice,\* an article was published whose normalized title was in that set
    db_rows,        \* the rows of table posted in history.db, in insertion order
    db_pc,          \* position of the caller of database.py
    db_call,        \* the last call: its function, its arguments, how it ended
    db_marked,      \* the combinations a mark_posted call returned for
    db_before,      \* the rows before the last call
    blocks_start,   \* the html a sequence of content_enhancer.py calls began with
    blocks_html,    \* the html after the calls made so far
    blocks_calls,   \* how many calls were made
    blocks_last,    \* the last call: its function, its links, the html it was given
    blocks_markup   \* a call so far was given a link with block markup in it

slugVars == <<to_latin, text, max_length, slug_pc, transliterated_text, slug, reslug, again>>

titleVars == <<raw_title, title_limit, title_pc, chosen_title, title_case, sentence_case>>

histVars == <<history_records, article, alt_title, max_links, hist_pc, dup_result,
              alt_dup_result, links, link_sources>>

contentVars == <<raw_html, internal_links, content_pc, cta_html, cta_html_again,
                 linked_html, linked_raw_html>>

storeVars == <<history_file, store_records, store_pc, write_rest, load_raised, recovered,
               saved_over, saved_list, add_called, add_existed, add_before,
               add_file_before, add_saved, add_returned>>

botVars == <<posted, task, bot_article, bot_links, bot_pc, cycle_end, read_dup,
             read_links, publish_called, published_ok, marked, added,
             posted_at_start, file_at_start, records_at_start, published_titles,
             published_twice>>

dbVars == <<db_rows, db_pc, db_call, db_marked, db_before>>

blocksVars == <<blocks_start, blocks_html, blocks_calls, blocks_last, blocks_markup>>

vars == <<slugVars, titleVars, histVars, contentVars, storeVars, botVars, dbVars,
          blocksVars>>

(***************************************************************************)
(* Characters                                                              *)
(***************************************************************************)
AsciiLower == {"a", "b", "c", "d", "e", "f", "g", "h", "i", "j", "k", "l", "m",
               "n", "o", "p", "q", "r", "s", "t", "u", "v", "w", "x", "y", "z"}

AsciiUpper == {"A", "B", "C", "D", "E", "F", "G", "H", "I", "J", "K", "L", "M",
               "N", "O", "P", "Q", "R", "S", "T", "U", "V", "W", "X", "Y", "Z"}

Digits == {"0", "1", "2", "3", "4", "5", "6", "7", "8", "9"}

\* the characters str.isspace() and the regex class \s accept
Whitespace == {" ", "\t", "\n"}

\* str.lower() on one character, as a table of the characters that change
ToLower ==
    ("A" :> "a") @@ ("B" :> "b") @@ ("C" :> "c") @@ ("D" :> "d") @@ ("E" :> "e") @@ ("F" :> "f") @@
    ("G" :> "g") @@ ("H" :> "h") @@ ("I" :> "i") @@ ("J" :> "j") @@ ("K" :> "k") @@ ("L" :> "l") @@
    ("M" :> "m") @@ ("N" :> "n") @@ ("O" :> "o") @@ ("P" :> "p") @@ ("Q" :> "q") @@ ("R" :> "r") @@
    ("S" :> "s") @@ ("T" :> "t") @@ ("U" :> "u") @@ ("V" :> "v") @@ ("W" :> "w") @@ ("X" :> "x") @@
    ("Y" :> "y") @@ ("Z" :> "z") @@
    ("UK_A" :> "uk_a") @@ ("UK_B" :> "uk_b") @@ ("UK_V" :> "uk_v") @@ ("UK_H" :> "uk_h") @@
    ("UK_G" :> "uk_g") @@ ("UK_D" :> "uk_d") @@ ("UK_E" :> "uk_e") @@ ("UK_YE" :> "uk_ye") @@
    ("UK_ZH" :> "uk_zh") @@ ("UK_Z" :> "uk_z") @@ ("UK_Y" :> "uk_y") @@ ("UK_I" :> "uk_i") @@
    ("UK_YI" :> "uk_yi") @@ ("UK_J" :> "uk_j") @@ ("UK_K" :> "uk_k") @@ ("UK_L" :> "uk_l") @@
    ("UK_M" :> "uk_m") @@ ("UK_N" :> "uk_n") @@ ("UK_O" :> "uk_o") @@ ("UK_P" :> "uk_p") @@
    ("UK_R" :> "uk_r") @@ ("UK_S" :> "uk_s") @@ ("UK_T" :> "uk_t") @@ ("UK_U" :> "uk_u") @@
    ("UK_F" :> "uk_f") @@ ("UK_KH" :> "uk_kh") @@ ("UK_TS" :> "uk_ts") @@ ("UK_CH" :> "uk_ch") @@
    ("UK_SH" :> "uk_sh") @@ ("UK_SHCH" :> "uk_shch") @@ ("UK_YU" :> "uk_yu") @@ ("UK_YA" :> "uk_ya") @@
    ("LAT_I_UML" :> "lat_i_uml")

lower_char(c) == IF c \in DOMAIN ToLower THEN ToLower[c] ELSE c

upper_char(c) ==
    IF \E u \in DOMAIN ToLower : ToLower[u] = c
    THEN CHOOSE u \in DOMAIN ToLower : ToLower[u] = c
    ELSE c

\* str.lower() and str.upper()
str_lower(s) == [i \in 1..Len(s) |-> lower_char(s[i])]

str_upper(s) == [i \in 1..Len(s) |-> upper_char(s[i])]

\* the slice s[:n] of Python, n of either sign
slice_to(s, n) ==
    LET k == IF n >= 0 THEN (IF n < Len(s) THEN n ELSE Len(s))
             ELSE (IF Len(s) + n > 0 THEN Len(s) + n ELSE 0)
    IN SubSeq(s, 1, k)

\* str.strip(chars), str.lstrip(chars), str.rstrip(chars)
RECURSIVE str_lstrip(_, _)
str_lstrip(s, chars) ==
    IF s # <<>> /\ Head(s) \in chars THEN str_lstrip(Tail(s), chars) ELSE s

RECURSIVE str_rstrip(_, _)
str_rstrip(s, chars) ==
    IF s # <<>> /\ s[Len(s)] \in chars
    THEN str_rstrip(SubSeq(s, 1, Len(s) - 1), chars)
    ELSE s

str_strip(s, chars) == str_rstrip(str_lstrip(s, chars), chars)

\* sep.join(words)
RECURSIVE str_join(_, _)
str_join(sep, words) ==
    IF words = <<>> THEN <<>>
    ELSE IF Len(words) = 1 THEN words[1]
    ELSE words[1] \o sep \o str_join(sep, Tail(words))

\* the non-empty pieces of s between runs of separator characters:
\* [p for p in re.split(r"[seps]+", s) if p], and str.split() for whitespace
RECURSIVE split_runs(_, _, _)
split_runs(s, seps, cur) ==
    LET piece == IF cur = <<>> THEN <<>> ELSE <<cur>>
    IN IF s = <<>> THEN piece
       ELSE IF Head(s) \in seps THEN piece \o split_runs(Tail(s), seps, <<>>)
       ELSE split_runs(Tail(s), seps, Append(cur, Head(s)))

(***************************************************************************)
(* slugify.py                                                              *)
(***************************************************************************)
UA_MAP ==
    ("uk_a" :> <<"a">>) @@ ("uk_b" :> <<"b">>) @@ ("uk_v" :> <<"v">>) @@
    ("uk_h" :> <<"h">>) @@ ("uk_g" :> <<"g">>) @@ ("uk_d" :> <<"d">>) @@
    ("uk_e" :> <<"e">>) @@ ("uk_ye" :> <<"i", "e">>) @@ ("uk_zh" :> <<"z", "h">>) @@
    ("uk_z" :> <<"z">>) @@ ("uk_y" :> <<"y">>) @@ ("uk_i" :> <<"i">>) @@
    ("uk_yi" :> <<"y", "i">>) @@ ("uk_j" :> <<"i">>) @@ ("uk_k" :> <<"k">>) @@
    ("uk_l" :> <<"l">>) @@ ("uk_m" :> <<"m">>) @@ ("uk_n" :> <<"n">>) @@
    ("uk_o" :> <<"o">>) @@ ("uk_p" :> <<"p">>) @@ ("uk_r" :> <<"r">>) @@
    ("uk_s" :> <<"s">>) @@ ("uk_t" :> <<"t">>) @@ ("uk_u" :> <<"u">>) @@
    ("uk_f" :> <<"f">>) @@ ("uk_kh" :> <<"k", "h">>) @@ ("uk_ts" :> <<"t", "s">>) @@
    ("uk_ch" :> <<"c", "h">>) @@ ("uk_sh" :> <<"s", "h">>) @@
    ("uk_shch" :> <<"s", "h", "c", "h">>) @@ ("uk_yu" :> <<"y", "u">>) @@
    ("uk_ya" :> <<"y", "a">>)

STOP_WORDS == {
    <<"a">>, <<"a", "b", "o">>, <<"a", "l", "e">>, <<"a", "n">>, <<"a", "n", "d">>,
    <<"b", "e", "s", "t">>, <<"b", "y">>, <<"c", "e">>, <<"c", "h", "i">>,
    <<"d", "l", "a">>, <<"d", "l", "i", "a">>, <<"d", "l", "y", "a">>, <<"d", "o">>,
    <<"f", "o", "r">>, <<"f", "r", "o", "m">>, <<"h", "o", "w">>, <<"h", "t", "o">>,
    <<"i">>, <<"i", "n">>, <<"i", "z">>, <<"k", "h", "t", "o">>, <<"m", "i", "z">>,
    <<"n", "a">>, <<"n", "a", "d">>, <<"o", "f">>, <<"o", "n">>, <<"o", "r">>,
    <<"p", "e", "r", "e">>, <<"p", "i", "d">>, <<"p", "o">>, <<"p", "r", "o">>,
    <<"t", "a">>, <<"t", "e">>, <<"t", "h", "e">>, <<"t", "i", "l", "k", "i">>,
    <<"t", "i", "l", "k", "y">>, <<"t", "o">>, <<"t", "o", "p">>, <<"t", "s", "e">>,
    <<"t", "s", "y", "a">>, <<"t", "s", "y", "e">>, <<"t", "s", "y", "i">>,
    <<"t", "y", "l", "k", "i">>, <<"u">>, <<"v">>, <<"v", "i", "d">>,
    <<"w", "h", "a", "t">>, <<"w", "h", "e", "n">>, <<"w", "h", "e", "r", "e">>,
    <<"w", "h", "y">>, <<"w", "i", "t", "h">>, <<"y">>, <<"y", "a", "k">>, <<"y", "i">>,
    <<"y", "i", "y", "i">>, <<"z">>, <<"z", "a">>
}

RECURSIVE _fallback_transliterate(_)
_fallback_transliterate(s) ==
    IF s = <<>> THEN <<>>
    ELSE LET lc == lower_char(Head(s))
             value == IF lc \in DOMAIN UA_MAP THEN UA_MAP[lc]
                      ELSE IF lc \in AsciiLower \cup Digits THEN <<lc>>
                      ELSE IF lc \in Whitespace \/ lc \in {"-", "_"} THEN <<" ">>
                      ELSE <<>>   \* ignore other symbols
         IN value \o _fallback_transliterate(Tail(s))

\* The values the module global to_latin can hold after the import at lines
\* 15-18: None when cyrtranslit is absent, otherwise the library function.
\* The library is not part of the repository; its behaviours are those the
\* code at lines 139-147 provides for: it raises, it returns the text as it
\* is (language code not served), or it returns a Latin rendering that can
\* hold letters outside ASCII.
ToLatinBindings == {"None", "raises", "unchanged", "latin"}

cyrtranslit_char(c) ==
    IF c \in {"uk_yi", "UK_YI"} THEN <<IF c = "uk_yi" THEN "lat_i_uml" ELSE "LAT_I_UML">>
    ELSE IF c \in DOMAIN UA_MAP THEN UA_MAP[c]
    ELSE IF lower_char(c) \in DOMAIN UA_MAP THEN str_upper(UA_MAP[lower_char(c)])
    ELSE <<c>>

RECURSIVE cyrtranslit_to_latin(_)
cyrtranslit_to_latin(s) ==
    IF s = <<>> THEN <<>>
    ELSE cyrtranslit_char(Head(s)) \o cyrtranslit_to_latin(Tail(s))

\* The character class of the pattern r"[\\u0400-\\u04FF]" at line 143: in a
\* raw string \\ is a literal backslash, so the class holds the backslash,
\* "u", "0", "4", "F" and the range from "0" to the backslash (0x30-0x5C).
CyrillicRemainsClass ==
    Digits \cup AsciiUpper \cup {":", ";", "<", "=", ">", "?", "@", "[", "\\", "u"}

transliterate_uk(s) ==
    IF to_latin \in {"unchanged", "latin"}
    THEN LET converted == IF to_latin = "unchanged" THEN s ELSE cyrtranslit_to_latin(s)
         IN IF \E i \in 1..Len(converted) : converted[i] \in CyrillicRemainsClass
            THEN _fallback_transliterate(s)
            ELSE converted
    ELSE _fallback_transliterate(s)   \* to_latin is None, or the call raised

_tokenize(s) ==
    LET keep == AsciiLower \cup AsciiUpper \cup Digits \cup Whitespace \cup {"_", "-"}
        cleaned == [i \in 1..Len(s) |-> IF s[i] \in keep THEN s[i] ELSE " "]
    IN split_runs(str_lower(cleaned), Whitespace \cup {"_", "-"}, <<>>)

RECURSIVE filter_stop_words_loop(_, _)
filter_stop_words_loop(words, seen) ==
    IF words = <<>> THEN <<>>
    ELSE LET word == Head(words) IN
         IF word \in STOP_WORDS THEN filter_stop_words_loop(Tail(words), seen)
         ELSE IF word \in seen THEN filter_stop_words_loop(Tail(words), seen)
         ELSE <<word>> \o filter_stop_words_loop(Tail(words), seen \cup {word})

_filter_stop_words(words) == filter_stop_words_loop(words, {})

MAX_WORDS == 5

MIN_WORDS == 3

_trim_keywords(words) ==
    IF Len(words) <= MAX_WORDS THEN words
    ELSE LET trimmed == slice_to(words, MAX_WORDS)
         IN IF Len(trimmed) >= MIN_WORDS THEN trimmed ELSE slice_to(words, MIN_WORDS)

RECURSIVE collapse_runs(_)
collapse_runs(s) ==
    IF Len(s) < 2 THEN s
    ELSE IF s[1] = "-" /\ s[2] = "-" THEN collapse_runs(Tail(s))
    ELSE <<s[1]>> \o collapse_runs(Tail(s))

\* the same function without the strip("-")
collapse_hyphens_without_strip(s) == collapse_runs(s)

_collapse_hyphens(s) == str_strip(collapse_runs(s), {"-"})

TEMPLATE_WORDS == {<<"a", "r", "t", "i", "c", "l", "e">>, <<"p", "o", "s", "t">>,
                   <<"p", "a", "g", "e">>, <<"b", "l", "o", "g">>}

_looks_like_template(s) ==
    \E w \in TEMPLATE_WORDS :
        /\ Len(s) >= Len(w) + 2
        /\ SubSeq(s, 1, Len(w)) = w
        /\ s[Len(w) + 1] = "-"
        /\ \A i \in (Len(w) + 2)..Len(s) : s[i] \in Digits

FALLBACK_SLUG == <<"u", "k", "r", "f", "i", "x", "-", "a", "r", "t", "i", "c", "l", "e">>

DEFAULT_MAX_LENGTH == 75

\* lines 197-204: the keywords joined with hyphens, before the length cut
keyword_slug(s) ==
    LET transliterated == transliterate_uk(s)
        tokens == _tokenize(transliterated)
        filtered == _filter_stop_words(tokens)
        meaningful == _trim_keywords(IF filtered = <<>> THEN tokens ELSE filtered)
    IN _collapse_hyphens(str_join(<<"-">>, meaningful))

\* lines 206-208: the cut at max_length
truncated_slug(joined, limit) ==
    IF Len(joined) > limit
    THEN _collapse_hyphens(slice_to(joined, limit))
    ELSE joined

\* the same function with the template test made before the cut
generate_slug_template_before_cut(s, limit) ==
    LET joined == keyword_slug(s)
        checked == IF _looks_like_template(joined) \/ joined = <<>>
                   THEN FALLBACK_SLUG ELSE joined
        cut == truncated_slug(checked, limit)
    IN IF cut # <<>> THEN cut ELSE FALLBACK_SLUG

generate_slug(s, limit) ==
    LET cut == truncated_slug(keyword_slug(s), limit)
        checked == IF _looks_like_template(cut) \/ cut = <<>> THEN FALLBACK_SLUG ELSE cut
    IN IF checked # <<>> THEN checked ELSE FALLBACK_SLUG

(***************************************************************************)
(* title_optimizer.py                                                      *)
(***************************************************************************)
TITLE_STOP_WORDS == {
    <<"uk_i">>, <<"uk_j">>, <<"uk_t", "uk_a">>, <<"uk_a">>, <<"uk_a", "uk_l", "uk_e">>,
    <<"uk_ch", "uk_y">>, <<"uk_a", "uk_b", "uk_o">>, <<"uk_u">>, <<"uk_v">>, <<"uk_z">>,
    <<"uk_i", "uk_z">>, <<"uk_z", "uk_i">>, <<"uk_z", "uk_a">>, <<"uk_ya", "uk_k">>,
    <<"uk_shch", "uk_o">>, <<"uk_d", "uk_l", "uk_ya">>, <<"uk_p", "uk_r", "uk_o">>,
    <<"uk_n", "uk_a">>, <<"uk_d", "uk_o">>, <<"uk_b", "uk_e", "uk_z">>,
    <<"uk_p", "uk_r", "uk_y">>, <<"uk_p", "uk_i", "uk_d">>, <<"uk_n", "uk_a", "uk_d">>,
    <<"uk_ch", "uk_e", "uk_r", "uk_e", "uk_z">>,
    <<"uk_p", "uk_i", "uk_s", "uk_l", "uk_ya">>
}

\* re.sub(r"\s+", " ", s)
RECURSIVE collapse_whitespace(_)
collapse_whitespace(s) ==
    IF s = <<>> THEN <<>>
    ELSE IF Head(s) \in Whitespace
         THEN <<" ">> \o collapse_whitespace(str_lstrip(s, Whitespace))
         ELSE <<Head(s)>> \o collapse_whitespace(Tail(s))

\* str.split()
str_split(s) == split_runs(s, Whitespace, <<>>)

_clean_text(s) ==
    LET cleaned == str_strip(collapse_whitespace(s), Whitespace)
    IN str_strip(cleaned, {"-", "en_dash", "em_dash", ":", ";", ",", "."})

RECURSIVE pop_stop_words(_)
pop_stop_words(words) ==
    IF words # <<>> /\ str_lower(words[1]) \in TITLE_STOP_WORDS
    THEN pop_stop_words(Tail(words))
    ELSE words

\* the same function dropping the stop words wherever they stand
RECURSIVE drop_stop_words(_)
drop_stop_words(words) ==
    IF words = <<>> THEN <<>>
    ELSE IF str_lower(words[1]) \in TITLE_STOP_WORDS THEN drop_stop_words(Tail(words))
    ELSE <<words[1]>> \o drop_stop_words(Tail(words))

trim_stop_words_everywhere(s) == str_join(<<" ">>, drop_stop_words(str_split(s)))

_trim_stop_words(s) == str_join(<<" ">>, pop_stop_words(str_split(s)))

_to_sentence_case(s) ==
    LET cleaned == _clean_text(s)
    IN IF cleaned = <<>> THEN <<>>
       ELSE <<upper_char(cleaned[1])>> \o Tail(cleaned)

_to_title_case(s) ==
    LET words == str_split(_clean_text(s))
        title_words == [idx \in 1..Len(words) |->
            LET word == words[idx]
                lower_word == str_lower(word)
            IN IF idx # 1 /\ lower_word \in TITLE_STOP_WORDS
               THEN lower_word
               ELSE str_upper(slice_to(word, 1)) \o Tail(word)]
    IN str_join(<<" ">>, title_words)

\* s.rsplit(" ", 1)[0]: s up to its last space
RECURSIVE before_last_space(_)
before_last_space(s) ==
    IF s[Len(s)] = " " THEN SubSeq(s, 1, Len(s) - 1)
    ELSE before_last_space(SubSeq(s, 1, Len(s) - 1))

\* the same function without the final cut at the limit
_truncate_without_final_cut(s, limit) ==
    IF Len(s) <= limit THEN s
    ELSE LET cut == slice_to(s, limit)
             whole == IF \E i \in 1..Len(cut) : cut[i] = " "
                      THEN before_last_space(cut) ELSE cut
             stripped == str_rstrip(whole, {"-", "en_dash", "em_dash", ":", ";", ","})
         IN stripped \o <<".", ".", ".">>

_truncate(s, limit) ==
    IF Len(s) <= limit THEN s
    ELSE LET cut == slice_to(s, limit)
             whole == IF \E i \in 1..Len(cut) : cut[i] = " "
                      THEN before_last_space(cut) ELSE cut
             stripped == str_rstrip(whole, {"-", "en_dash", "em_dash", ":", ";", ","})
             trimmed == stripped \o <<".", ".", ".">>
         IN IF Len(trimmed) > limit THEN slice_to(trimmed, limit) ELSE trimmed

DEFAULT_TITLE == <<"U", "k", "r", "F", "i", "x", ":", " ", "uk_n", "uk_o", "uk_v", "uk_a",
                   " ", "uk_s", "uk_t", "uk_a", "uk_t", "uk_t", "uk_ya">>

DEFAULT_TITLE_LIMIT == 60

\* the same function choosing the sentence case whenever it fits
optimize_title_prefers_sentence_case(raw, limit) ==
    LET base == _trim_stop_words(_clean_text(raw))
        sentence == _truncate(_to_sentence_case(base), limit)
        title == _truncate(_to_title_case(base), limit)
        fit == IF Len(sentence) <= limit THEN sentence ELSE title
        preferred == IF fit = <<>> THEN DEFAULT_TITLE ELSE fit
    IN <<preferred,
         IF title # <<>> THEN title ELSE preferred,
         IF sentence # <<>> THEN sentence ELSE preferred>>

\* (chosen_title, title_case, sentence_case)
optimize_title(raw, limit) ==
    LET base == _trim_stop_words(_clean_text(raw))
        sentence == _truncate(_to_sentence_case(base), limit)
        title == _truncate(_to_title_case(base), limit)
        fit == IF Len(title) <= limit THEN title ELSE sentence
        preferred == IF fit = <<>> THEN DEFAULT_TITLE ELSE fit
    IN <<preferred,
         IF title # <<>> THEN title ELSE preferred,
         IF sentence # <<>> THEN sentence ELSE preferred>>

(***************************************************************************)
(* history.py                                                              *)
(***************************************************************************)
\* rec.get(key) of a record that has no such key: a value no text equals
None == <<"None">>

\* rec.get(key, default)
dict_get(rec, key, default) == IF key \in DOMAIN rec THEN rec[key] ELSE default

\* the characters the regex class [\w'] accepts
WordChars ==
    AsciiLower \cup AsciiUpper \cup Digits \cup {"_", "'"} \cup
    DOMAIN ToLower \cup {ToLower[c] : c \in DOMAIN ToLower}

\* re.findall(r"[\w']+", s)
RECURSIVE findall_words(_, _)
findall_words(s, cur) ==
    LET piece == IF cur = <<>> THEN <<>> ELSE <<cur>>
    IN IF s = <<>> THEN piece
       ELSE IF Head(s) \in WordChars THEN findall_words(Tail(s), Append(cur, Head(s)))
       ELSE piece \o findall_words(Tail(s), <<>>)

history_tokenize(s) ==
    LET tokens == findall_words(str_lower(s), <<>>)
    IN {tokens[i] : i \in 1..Len(tokens)}

\* the same function without the strip() of the record's title
RECURSIVE is_duplicate_title_unstripped_records(_, _)
is_duplicate_title_unstripped_records(title, records) ==
    LET normalized == str_strip(str_lower(title), Whitespace)
    IN IF records = <<>> THEN FALSE
       ELSE IF normalized = str_lower(dict_get(Head(records), "title", <<>>)) THEN TRUE
       ELSE is_duplicate_title_unstripped_records(title, Tail(records))

\* title.lower().strip() (history.py:51)
normalized_title(title) == str_strip(str_lower(title), Whitespace)

RECURSIVE is_duplicate_title(_, _)
is_duplicate_title(title, records) ==
    LET normalized == str_strip(str_lower(title), Whitespace)
    IN IF records = <<>> THEN FALSE
       ELSE IF normalized =
                   str_strip(str_lower(dict_get(Head(records), "title", <<>>)), Whitespace)
            THEN TRUE
       ELSE is_duplicate_title(title, Tail(records))

\* article_tokens of find_internal_links (lines 82-84)
article_tokens(a) ==
    {str_lower(a.tags[i]) : i \in 1..Len(a.tags)} \cup history_tokenize(a.title)
        \cup {str_lower(a.category)}

\* rec_tokens of find_internal_links (lines 95-98)
rec_tokens(rec) ==
    LET tags == dict_get(rec, "tags", <<>>)
        category == dict_get(rec, "category", None)
    IN {str_lower(tags[i]) : i \in 1..Len(tags)}
           \cup history_tokenize(dict_get(rec, "title", <<>>))
           \cup (IF category \notin {None, <<>>} THEN {str_lower(category)} ELSE {})

\* the score of a record that shares tokens with the article (lines 104-106)
link_score(a, rec) ==
    Cardinality(article_tokens(a) \cap rec_tokens(rec))
        + (IF str_lower(dict_get(rec, "category", <<>>)) = str_lower(a.category)
           THEN 1 ELSE 0)

\* the same loop without the test of the record's slug
RECURSIVE scored_loop_keeps_own_slug(_, _, _)
scored_loop_keeps_own_slug(a, records, i) ==
    IF i = 0 THEN <<>>
    ELSE LET rec == records[i]
             rest == scored_loop_keeps_own_slug(a, records, i - 1)
         IN IF dict_get(rec, "url", None) \in {None, <<>>} THEN rest
            ELSE IF article_tokens(a) \cap rec_tokens(rec) = {} THEN rest
            ELSE <<<<link_score(a, rec), i>>>> \o rest

\* the same loop without the test of the overlap
RECURSIVE scored_loop_keeps_zero_overlap(_, _, _)
scored_loop_keeps_zero_overlap(a, records, i) ==
    IF i = 0 THEN <<>>
    ELSE LET rec == records[i]
             rest == scored_loop_keeps_zero_overlap(a, records, i - 1)
         IN IF dict_get(rec, "slug", None) = a.slug THEN rest
            ELSE IF dict_get(rec, "url", None) \in {None, <<>>} THEN rest
            ELSE <<<<link_score(a, rec), i>>>> \o rest

\* the loop at lines 87-108 over reversed(records): the list of (score, index
\* of the record), i running from the last record down to the first
RECURSIVE scored_loop(_, _, _)
scored_loop(a, records, i) ==
    IF i = 0 THEN <<>>
    ELSE LET rec == records[i]
             rest == scored_loop(a, records, i - 1)
         IN IF dict_get(rec, "slug", None) = a.slug THEN rest
            ELSE IF dict_get(rec, "url", None) \in {None, <<>>} THEN rest
            ELSE IF article_tokens(a) \cap rec_tokens(rec) = {} THEN rest
            ELSE <<<<link_score(a, rec), i>>>> \o rest

\* list.sort(key=lambda item: item[0], reverse=True): stable, highest score
\* first; an item goes behind the items whose score is not lower
RECURSIVE insert_by_score(_, _)
insert_by_score(sorted, item) ==
    IF sorted = <<>> THEN <<item>>
    ELSE IF Head(sorted)[1] >= item[1]
         THEN <<Head(sorted)>> \o insert_by_score(Tail(sorted), item)
         ELSE <<item>> \o sorted

\* a sort by score that puts the later item in front of an equal one
RECURSIVE insert_before_equal(_, _)
insert_before_equal(sorted, item) ==
    IF sorted = <<>> THEN <<item>>
    ELSE IF Head(sorted)[1] > item[1]
         THEN <<Head(sorted)>> \o insert_before_equal(Tail(sorted), item)
         ELSE <<item>> \o sorted

RECURSIVE sort_by_score_unstable(_)
sort_by_score_unstable(items) ==
    IF items = <<>> THEN <<>>
    ELSE insert_before_equal(sort_by_score_unstable(SubSeq(items, 1, Len(items) - 1)),
                             items[Len(items)])

RECURSIVE sort_by_score(_)
sort_by_score(items) ==
    IF items = <<>> THEN <<>>
    ELSE insert_by_score(sort_by_score(SubSeq(items, 1, Len(items) - 1)),
                         items[Len(items)])

\* the same choice repeating the last chosen record until limit are chosen
selected_records_fills_slots(a, records, limit) ==
    LET scored == IF records = <<>> THEN <<>>
                  ELSE sort_by_score(scored_loop(a, records, Len(records)))
    IN IF scored = <<>> THEN <<>>
       ELSE [k \in 1..limit |-> scored[IF k <= Len(scored) THEN k ELSE Len(scored)]]

\* scored[:max_links] after the sort (lines 110-112): the chosen (score, index)
selected_records(a, records, limit) ==
    IF records = <<>> THEN <<>>
    ELSE slice_to(sort_by_score(scored_loop(a, records, Len(records))), limit)

\* the links built from the chosen records (line 113)
find_internal_links(a, records, limit) ==
    LET selected == selected_records(a, records, limit)
    IN [k \in 1..Len(selected) |->
            [title |-> dict_get(records[selected[k][2]], "title", <<>>),
             url |-> dict_get(records[selected[k][2]], "url", <<>>)]]

DEFAULT_MAX_LINKS == 2

(***************************************************************************)
(* history.py: the persisted history                                       *)
(*                                                                         *)
(* The text of HISTORY_FILE is a sequence of pieces json.dump writes one   *)
(* after the other: brackets, commas, and the fields of one record.        *)
(***************************************************************************)
Punct(s) == [t |-> s, v |-> [none |-> TRUE]]

Fields(rec) == [t |-> "fields", v |-> rec]

\* the pieces of the records of a non-empty list, a comma between two records
RECURSIVE dump_items(_)
dump_items(records) ==
    <<Punct("{"), Fields(Head(records)), Punct("}")>>
        \o (IF Len(records) = 1 THEN <<>>
            ELSE <<Punct(",")>> \o dump_items(Tail(records)))

\* json.dump(records, fp, ensure_ascii=False, indent=2): the pieces written
json_dump(records) ==
    IF records = <<>> THEN <<Punct("["), Punct("]")>>
    ELSE <<Punct("[")>> \o dump_items(records) \o <<Punct("]")>>

\* the records of a text from piece i on, when a record is due at i; exc if
\* the text does not go on as the text of a list does
RECURSIVE load_items(_, _, _)
load_items(pieces, i, acc) ==
    IF /\ i + 3 <= Len(pieces)
       /\ pieces[i].t = "{"
       /\ pieces[i + 1].t = "fields"
       /\ pieces[i + 2].t = "}"
    THEN IF pieces[i + 3].t = "]" /\ i + 3 = Len(pieces)
         THEN [exc |-> FALSE, is_list |-> TRUE, items |-> Append(acc, pieces[i + 1].v)]
         ELSE IF pieces[i + 3].t = ","
              THEN load_items(pieces, i + 4, Append(acc, pieces[i + 1].v))
              ELSE [exc |-> TRUE, is_list |-> FALSE, items |-> <<>>]
    ELSE [exc |-> TRUE, is_list |-> FALSE, items |-> <<>>]

\* json.load(fp): a list, another well-formed value (an object, null), or
\* an exception for a text that is not well-formed, the empty text included
json_load(pieces) ==
    IF Len(pieces) = 2 /\ pieces[1].t = "[" /\ pieces[2].t = "]"
    THEN [exc |-> FALSE, is_list |-> TRUE, items |-> <<>>]
    ELSE IF Len(pieces) >= 1 /\ pieces[1].t = "["
    THEN load_items(pieces, 2, <<>>)
    ELSE IF Len(pieces) = 1 /\ pieces[1].t = "null"
    THEN [exc |-> FALSE, is_list |-> FALSE, items |-> <<>>]
    ELSE IF /\ Len(pieces) = 3
            /\ pieces[1].t = "{"
            /\ pieces[2].t = "fields"
            /\ pieces[3].t = "}"
    THEN [exc |-> FALSE, is_list |-> FALSE, items |-> <<>>]
    ELSE [exc |-> TRUE, is_list |-> FALSE, items |-> <<>>]

\* the try block of load_history (lines 27-30) on a file that exists: open
\* raises on a file that cannot be read, json.load on a malformed text
load_history_try(file) ==
    IF ~file.readable THEN [exc |-> TRUE, is_list |-> FALSE, items |-> <<>>]
    ELSE json_load(file.text)

\* the same function without the try
load_history_uncaught(file) ==
    IF ~file.exists THEN [raised |-> FALSE, value |-> <<>>]
    ELSE [raised |-> load_history_try(file).exc,
          value |-> load_history_try(file).items]

\* load_history(): the list returned, and whether the call raised
load_history(file) ==
    IF ~file.exists THEN [raised |-> FALSE, value |-> <<>>]
    ELSE IF load_history_try(file).exc THEN [raised |-> FALSE, value |-> <<>>]
    ELSE [raised |-> FALSE,
          value |-> IF load_history_try(file).is_list
                    THEN load_history_try(file).items ELSE <<>>]

\* f"{wp_url.rstrip('/')}/{article.slug.strip('/')}/" (line 58)
record_url(a, wp_url) ==
    str_rstrip(wp_url, {"/"}) \o <<"/">> \o str_strip(a.slug, {"/"}) \o <<"/">>

\* the record of lines 64-70
make_record(a, wp_url) ==
    [title |-> a.title, slug |-> a.slug, url |-> record_url(a, wp_url),
     tags |-> a.tags, category |-> a.category]

\* any(rec.get("slug") == article.slug for rec in records) (line 61)
slug_exists(a, records) ==
    \E i \in 1..Len(records) : dict_get(records[i], "slug", None) = a.slug

\* the same function saving the list also when the slug is in it
add_article_record_saves_anyway(a, wp_url, records) ==
    IF slug_exists(a, records) THEN [records |-> records, save |-> TRUE]
    ELSE [records |-> Append(records, make_record(a, wp_url)), save |-> TRUE]

\* the same function without the test of the slug
add_article_record_always(a, wp_url, records) ==
    [records |-> Append(records, make_record(a, wp_url)), save |-> TRUE]

\* add_article_record up to the call of save_history: the list it returns
\* (the list it was given, appended to in place) and whether it saves
add_article_record(a, wp_url, records) ==
    IF slug_exists(a, records) THEN [records |-> records, save |-> FALSE]
    ELSE [records |-> Append(records, make_record(a, wp_url)), save |-> TRUE]

(***************************************************************************)
(* content_enhancer.py                                                     *)
(***************************************************************************)
\* the first position of sub in s, 0 if there is none (str.find, counted from 1)
str_find(s, sub) ==
    LET hits == {i \in 1..(Len(s) - Len(sub) + 1) :
                    s[i] = sub[1] /\ SubSeq(s, i, i + Len(sub) - 1) = sub}
    IN IF hits = {} THEN 0 ELSE CHOOSE i \in hits : \A j \in hits : i <= j

\* sub in s, for a non-empty sub
str_contains(s, sub) == str_find(s, sub) # 0

\* "Якщо вам потрібна допомога — звертайтеся в UkrFix. Знайдемо найкраще
\* рішення 🚀"
CTA_TEXT ==
    <<"UK_YA", "uk_k", "uk_shch", "uk_o", " ", "uk_v", "uk_a", "uk_m", " ", "uk_p",
      "uk_o", "uk_t", "uk_r", "uk_i", "uk_b", "uk_n", "uk_a", " ", "uk_d", "uk_o",
      "uk_p", "uk_o", "uk_m", "uk_o", "uk_h", "uk_a", " ", "em_dash", " ", "uk_z",
      "uk_v", "uk_e", "uk_r", "uk_t", "uk_a", "uk_j", "uk_t", "uk_e", "uk_s", "uk_ya",
      " ", "uk_v", " ", "U", "k", "r", "F", "i", "x", ".", " ", "UK_Z", "uk_n", "uk_a",
      "uk_j", "uk_d", "uk_e", "uk_m", "uk_o", " ", "uk_n", "uk_a", "uk_j", "uk_k",
      "uk_r", "uk_a", "uk_shch", "uk_e", " ", "uk_r", "uk_i", "uk_sh", "uk_e", "uk_n",
      "uk_n", "uk_ya", " ", "rocket">>

\* <a href="https://ukrfix.com/add-listing/" class="btn-submit">Подати
\* оголошення на UkrFix безкоштовно</a>
CTA_BUTTON ==
    <<"<", "a", " ", "h", "r", "e", "f", "=", "\"", "h", "t", "t", "p", "s", ":", "/",
      "/", "u", "k", "r", "f", "i", "x", ".", "c", "o", "m", "/", "a", "d", "d", "-",
      "l", "i", "s", "t", "i", "n", "g", "/", "\"", " ", "c", "l", "a", "s", "s", "=",
      "\"", "b", "t", "n", "-", "s", "u", "b", "m", "i", "t", "\"", ">", "UK_P",
      "uk_o", "uk_d", "uk_a", "uk_t", "uk_y", " ", "uk_o", "uk_h", "uk_o", "uk_l",
      "uk_o", "uk_sh", "uk_e", "uk_n", "uk_n", "uk_ya", " ", "uk_n", "uk_a", " ", "U",
      "k", "r", "F", "i", "x", " ", "uk_b", "uk_e", "uk_z", "uk_k", "uk_o", "uk_sh",
      "uk_t", "uk_o", "uk_v", "uk_n", "uk_o", "<", "/", "a", ">">>

CTA_BLOCK ==
    <<"<", "d", "i", "v", " ", "c", "l", "a", "s", "s", "=", "\"", "c", "t", "a", "-",
      "b", "l", "o", "c", "k", "\"", ">", "\n", " ", " ", "<", "p", ">">>
      \o CTA_TEXT \o <<"<", "/", "p", ">", "\n", " ", " ">> \o CTA_BUTTON
      \o <<"\n", "<", "/", "d", "i", "v", ">">>

ADD_LISTING == <<"a", "d", "d", "-", "l", "i", "s", "t", "i", "n", "g">>

\* the same function without the test of the marker url fragment
ensure_cta_block_by_text_only(content) ==
    LET lower_content == str_lower(content)
    IN IF str_contains(lower_content, str_lower(CTA_TEXT))
       THEN content
       ELSE str_rstrip(content, Whitespace) \o <<"\n", "\n">> \o CTA_BLOCK \o <<"\n">>

ensure_cta_block(content) ==
    LET lower_content == str_lower(content)
    IN IF str_contains(lower_content, str_lower(CTA_TEXT))
             \/ str_contains(lower_content, ADD_LISTING)
       THEN content
       ELSE str_rstrip(content, Whitespace) \o <<"\n", "\n">> \o CTA_BLOCK \o <<"\n">>

INTERNAL_LINKS == <<"i", "n", "t", "e", "r", "n", "a", "l", "-", "l", "i", "n", "k", "s">>

\* '<div class="cta-block">'
cta_marker == <<"<", "d", "i", "v", " ", "c", "l", "a", "s", "s", "=", "\"", "c", "t", "a", "-", "b",
  "l", "o", "c", "k", "\"", ">">>

\* the <li> items of the links that have a non-empty url (lines 36-40)
RECURSIVE link_items(_)
link_items(link_list) ==
    IF link_list = <<>> THEN <<>>
    ELSE (IF dict_get(Head(link_list), "url", <<>>) = <<>> THEN <<>>
          ELSE <<"<", "l", "i", ">", "<", "a", " ", "h", "r", "e", "f", "=", "\"">> \o Head(link_list).url
                 \o <<"\"", " ", "t", "a", "r", "g", "e", "t", "=", "\"", "_", "b", "l", "a", "n", "k",
  "\"", " ", "r", "e", "l", "=", "\"", "n", "o", "o", "p", "e", "n", "e", "r", "\"",
  ">">>
                 \o Head(link_list).title \o <<"<", "/", "a", ">", "<", "/", "l", "i", ">">>)
         \o link_items(Tail(link_list))

\* the block of lines 44-51
links_block(items) ==
    str_strip(
        <<"\n", "<", "d", "i", "v", " ", "c", "l", "a", "s", "s", "=", "\"", "i", "n",
          "t", "e", "r", "n", "a", "l", "-", "l", "i", "n", "k", "s", "\"", ">", "\n",
          " ", " ", "<", "h", "3", ">", "UK_CH", "uk_y", "uk_t", "uk_a", "uk_j",
          "uk_t", "uk_e", " ", "uk_t", "uk_a", "uk_k", "uk_o", "uk_zh", ":", "<", "/",
          "h", "3", ">", "\n", " ", " ", "<", "u", "l", ">", "\n", " ", " ", " ", " ">>
          \o items \o <<"\n", " ", " ", "<", "/", "u", "l", ">", "\n", "<", "/", "d", "i", "v", ">", "\n">>,
        Whitespace)

\* content.split(cta_marker, 1) for a content that holds the marker
split_at_cta_marker(content) ==
    LET at == str_find(content, cta_marker)
    IN <<SubSeq(content, 1, at - 1), SubSeq(content, at + Len(cta_marker), Len(content))>>

\* the same function appending the block also when the content has a CTA block
inject_internal_links_appends(content, link_list) ==
    IF link_list = <<>> THEN content
    ELSE IF str_contains(content, INTERNAL_LINKS) THEN content
    ELSE IF link_items(link_list) = <<>> THEN content
    ELSE str_rstrip(content, Whitespace) \o <<"\n", "\n">>
             \o links_block(link_items(link_list)) \o <<"\n">>

\* the same function without the test of the internal-links marker
inject_internal_links_ignores_marker(content, link_list) ==
    LET items == link_items(link_list)
        block == links_block(items)
        parts == split_at_cta_marker(content)
    IN IF link_list = <<>> THEN content
       ELSE IF items = <<>> THEN content
       ELSE IF str_contains(content, cta_marker)
            THEN str_rstrip(parts[1], Whitespace) \o <<"\n", "\n">> \o block
                     \o <<"\n", "\n">> \o cta_marker \o parts[2]
       ELSE str_rstrip(content, Whitespace) \o <<"\n", "\n">> \o block \o <<"\n">>

inject_internal_links(content, link_list) ==
    LET items == link_items(link_list)
        block == links_block(items)
        parts == split_at_cta_marker(content)
    IN IF link_list = <<>> THEN content
       ELSE IF str_contains(content, INTERNAL_LINKS) THEN content
       ELSE IF items = <<>> THEN content
       ELSE IF str_contains(content, cta_marker)
            THEN str_rstrip(parts[1], Whitespace) \o <<"\n", "\n">> \o block
                     \o <<"\n", "\n">> \o cta_marker \o parts[2]
       ELSE str_rstrip(content, Whitespace) \o <<"\n", "\n">> \o block \o <<"\n">>

(***************************************************************************)
(* database.py: the posted table of history.db                             *)
(***************************************************************************)
\* CREATE TABLE IF NOT EXISTS posted (..., UNIQUE(country, city, category)):
\* the rows a table holds stay as they are
init_db(rows) == rows

\* SELECT * FROM posted WHERE country=? AND city=? AND category=?,
\* then fetchone() is not None
is_posted(rows, country, city, category) ==
    \E i \in 1..Len(rows) :
        /\ rows[i].country = country
        /\ rows[i].city = city
        /\ rows[i].category = category

\* a mark_posted whose transaction never reaches the table
mark_posted_without_commit(rows, country, city, category) == rows

\* INSERT OR IGNORE INTO posted VALUES (?, ?, ?) and commit: the UNIQUE
\* constraint makes the insert of a row the table holds a no-op
mark_posted(rows, country, city, category) ==
    IF is_posted(rows, country, city, category)
    THEN rows
    ELSE Append(rows, [country |-> country, city |-> city, category |-> category])

(***************************************************************************)
(* seo_generator.py: the html of the article                               *)
(***************************************************************************)
\* s.startswith(prefix), s.endswith(suffix)
str_startswith(s, prefix) ==
    Len(prefix) <= Len(s) /\ SubSeq(s, 1, Len(prefix)) = prefix

str_endswith(s, suffix) ==
    Len(suffix) <= Len(s) /\ SubSeq(s, Len(s) - Len(suffix) + 1, Len(s)) = suffix

\* three backticks
CODE_FENCE == <<"backtick", "backtick", "backtick">>

\* _clean_html_content: strip, drop a leading code fence (with or without the
\* word html) and a trailing one
_clean_html_content(html_content) ==
    LET html == str_strip(html_content, Whitespace)
        opened ==
            IF str_startswith(html, CODE_FENCE \o <<"h", "t", "m", "l">>)
            THEN str_strip(SubSeq(html, 8, Len(html)), Whitespace)
            ELSE IF str_startswith(html, CODE_FENCE)
                 THEN str_strip(SubSeq(html, 4, Len(html)), Whitespace)
                 ELSE html
    IN IF str_endswith(opened, CODE_FENCE)
       THEN str_strip(SubSeq(opened, 1, Len(opened) - 3), Whitespace)
       ELSE opened

\* html_content of generate_article (seo_generator.py:183-186), from the
\* content of the model's answer
article_html(content) == ensure_cta_block(_clean_html_content(content))

(***************************************************************************)
(* The state of a part of the program that a specification leaves alone    *)
(***************************************************************************)
NoSlug == <<"?">>

NoTitle == <<"?">>

TitleIdle ==
    /\ raw_title = <<>>
    /\ title_limit = DEFAULT_TITLE_LIMIT
    /\ title_pc = "idle"
    /\ chosen_title = NoTitle
    /\ title_case = NoTitle
    /\ sentence_case = NoTitle

SlugIdle ==
    /\ to_latin = "None"
    /\ text = <<>>
    /\ max_length = DEFAULT_MAX_LENGTH
    /\ slug_pc = "idle"
    /\ transliterated_text = NoSlug
    /\ slug = NoSlug
    /\ reslug = NoSlug
    /\ again = NoSlug

HistIdle ==
    /\ history_records = <<>>
    /\ article = [title |-> <<>>, slug |-> <<>>, tags |-> <<>>, category |-> <<>>]
    /\ alt_title = <<>>
    /\ max_links = DEFAULT_MAX_LINKS
    /\ hist_pc = "idle"
    /\ dup_result = FALSE
    /\ alt_dup_result = FALSE
    /\ links = <<>>
    /\ link_sources = <<>>

NoHtml == <<"?">>

ContentIdle ==
    /\ raw_html = <<>>
    /\ internal_links = <<>>
    /\ content_pc = "idle"
    /\ cta_html = NoHtml
    /\ cta_html_again = NoHtml
    /\ linked_html = NoHtml
    /\ linked_raw_html = NoHtml

\* no HISTORY_FILE
MissingFile == [exists |-> FALSE, readable |-> FALSE, text |-> <<>>]

StoreIdle ==
    /\ history_file = MissingFile
    /\ store_records = <<>>
    /\ store_pc = "idle"
    /\ write_rest = <<>>
    /\ load_raised = FALSE
    /\ recovered = FALSE
    /\ saved_over = <<>>
    /\ saved_list = <<>>
    /\ add_called = FALSE
    /\ add_existed = FALSE
    /\ add_before = <<>>
    /\ add_file_before = MissingFile
    /\ add_saved = FALSE
    /\ add_returned = <<>>

\* no article yet in the cycle
NoArticle == [title |-> <<>>, slug |-> <<>>, tags |-> <<>>, category |-> <<>>]

BotIdle ==
    /\ posted = {}
    /\ task = "None"
    /\ bot_article = NoArticle
    /\ bot_links = <<>>
    /\ bot_pc = "idle"
    /\ cycle_end = "none"
    /\ read_dup = FALSE
    /\ read_links = FALSE
    /\ publish_called = FALSE
    /\ published_ok = FALSE
    /\ marked = FALSE
    /\ added = FALSE
    /\ posted_at_start = {}
    /\ file_at_start = MissingFile
    /\ records_at_start = <<>>
    /\ published_titles = {}
    /\ published_twice = FALSE

\* no call of database.py yet
NoCall == [fn |-> "none", key |-> <<>>, raised |-> FALSE, result |-> FALSE]

DbIdle ==
    /\ db_rows = <<>>
    /\ db_pc = "idle"
    /\ db_call = NoCall
    /\ db_marked = {}
    /\ db_before = <<>>

\* no call of content_enhancer.py yet
NoBlocksCall == [fn |-> "none", link_list |-> <<>>, given |-> <<>>]

BlocksIdle ==
    /\ blocks_start = <<>>
    /\ blocks_html = <<>>
    /\ blocks_calls = 0
    /\ blocks_last = NoBlocksCall
    /\ blocks_markup = FALSE

(***************************************************************************)
(* Callers of generate_slug                                                *)
(***************************************************************************)
MaxSlugAtoms == 3

\* pieces of headings: a stop word, a letter, a hyphen, a digit, a template
\* word with its hyphen, the letter Ї (transliterated to the stop word "yi"), a symbol, and
\* two three-word phrases
SlugAtoms == {<<"a">>, <<"x">>, <<"-">>, <<"1">>, <<"p", "o", "s", "t", "-">>, <<"UK_YI">>,
              <<"!">>, <<"b", " ", "y", "d", "_", "c">>, <<"e", " ", "f", " ", "G">>}

RECURSIVE SlugTextsUpTo(_)
SlugTextsUpTo(n) ==
    IF n = 0 THEN {<<>>}
    ELSE LET shorter == SlugTextsUpTo(n - 1)
         IN shorter \cup {t \o a : t \in shorter, a \in SlugAtoms}

SlugTexts == SlugTextsUpTo(MaxSlugAtoms)

SlugLimits == {-1, 0, 3, 6, DEFAULT_MAX_LENGTH}

InitSlug ==
    /\ to_latin \in ToLatinBindings
    /\ text \in SlugTexts
    /\ max_length \in SlugLimits
    /\ slug_pc = "start"
    /\ transliterated_text = NoSlug
    /\ slug = NoSlug
    /\ reslug = NoSlug
    /\ again = NoSlug
    /\ TitleIdle
    /\ HistIdle
    /\ ContentIdle
    /\ StoreIdle
    /\ BotIdle
    /\ DbIdle
    /\ BlocksIdle

\* the same call in a module that unbinds to_latin once it has been used
GenerateSlugUnbindsLibrary ==
    /\ slug_pc = "start"
    /\ transliterated_text' = transliterate_uk(text)
    /\ slug' = generate_slug(text, max_length)
    /\ slug_pc' = "called"
    /\ to_latin' = "None"
    /\ UNCHANGED <<text, max_length, reslug, again, titleVars, histVars, contentVars, storeVars, botVars, dbVars, blocksVars>>

\* slug = generate_slug(text, max_length)
GenerateSlug ==
    /\ slug_pc = "start"
    /\ transliterated_text' = transliterate_uk(text)
    /\ slug' = generate_slug(text, max_length)
    /\ slug_pc' = "called"
    /\ UNCHANGED <<to_latin, text, max_length, reslug, again, titleVars, histVars, contentVars, storeVars, botVars, dbVars, blocksVars>>

\* generate_slug(slug, max_length): a slug is slugged again
ReSlug ==
    /\ slug_pc = "called"
    /\ reslug' = generate_slug(slug, max_length)
    /\ slug_pc' = "reslugged"
    /\ UNCHANGED <<to_latin, text, max_length, transliterated_text, slug, again, titleVars, histVars, contentVars, storeVars, botVars, dbVars, blocksVars>>

\* generate_slug(text, max_length) once more, after the other calls
GenerateSlugAgain ==
    /\ slug_pc = "reslugged"
    /\ again' = generate_slug(text, max_length)
    /\ slug_pc' = "repeated"
    /\ UNCHANGED <<to_latin, text, max_length, transliterated_text, slug, reslug, titleVars, histVars, contentVars, storeVars, botVars, dbVars, blocksVars>>

NextSlug == GenerateSlug \/ ReSlug \/ GenerateSlugAgain

SpecSlug == InitSlug /\ [][NextSlug]_vars

(***************************************************************************)
(* Properties of generate_slug                                             *)
(***************************************************************************)
\* the slugs returned so far
ReturnedSlugs ==
    (IF slug_pc \in {"called", "reslugged", "repeated"} THEN {slug} ELSE {}) \cup
    (IF slug_pc \in {"reslugged", "repeated"} THEN {reslug} ELSE {}) \cup
    (IF slug_pc = "repeated" THEN {again} ELSE {})

\* s matches ^[a-z0-9]+(-[a-z0-9]+)*$
MatchesSlugPattern(s) ==
    /\ s # <<>>
    /\ \A i \in 1..Len(s) : s[i] \in AsciiLower \cup Digits \cup {"-"}
    /\ s[1] # "-"
    /\ s[Len(s)] # "-"
    /\ \A i \in 1..(Len(s) - 1) : ~(s[i] = "-" /\ s[i + 1] = "-")

\* s matches ^(article|post|page|blog)-\d+$
MatchesTemplatePattern(s) ==
    \E w \in {<<"a", "r", "t", "i", "c", "l", "e">>, <<"p", "o", "s", "t">>,
              <<"p", "a", "g", "e">>, <<"b", "l", "o", "g">>} :
        \E digits \in 1..Len(s) :
            /\ Len(s) = Len(w) + 1 + digits
            /\ SubSeq(s, 1, Len(w) + 1) = w \o <<"-">>
            /\ \A i \in 1..digits : s[Len(w) + 1 + i] \in Digits

\* C1: every string generate_slug returns matches ^[a-z0-9]+(-[a-z0-9]+)*$
\* or is the fallback constant "ukrfix-article", whatever the text and the
\* max_length.
C1_SlugDomain ==
    \A s \in ReturnedSlugs : MatchesSlugPattern(s) \/ s = FALLBACK_SLUG

\* C1 witness: a heading with an upper-case letter, a symbol or a Cyrillic
\* letter was cut at max_length right after a hyphen and came out well formed.
C1_Witness ==
    /\ slug_pc = "called"
    /\ \E i \in 1..Len(text) : text[i] \notin AsciiLower \cup Digits \cup {"-"}
    /\ Len(keyword_slug(text)) > max_length
    /\ max_length > 0
    /\ keyword_slug(text)[max_length] = "-"
    /\ slug # FALLBACK_SLUG
    /\ MatchesSlugPattern(slug)

\* C2: every string generate_slug returns is at most max_length characters
\* long, the fallback slug included.  (Stated for max_length >= 1, where a
\* non-empty slug of that length exists.)
C2_SlugWithinMaxLength ==
    (slug_pc = "called" /\ max_length >= 1) => Len(slug) <= max_length

\* C3: generate_slug never returns the empty string nor a string matching
\* ^(article|post|page|blog)-\d+$; when the slug computed from the text is
\* empty or matches that pattern, also after the cut at max_length, the
\* result is the fallback constant.
C3_SlugNeverEmptyNorTemplate ==
    /\ \A s \in ReturnedSlugs : s # <<>> /\ ~MatchesTemplatePattern(s)
    /\ slug_pc = "called" =>
          LET cut == truncated_slug(keyword_slug(text), max_length)
          IN (cut = <<>> \/ MatchesTemplatePattern(cut)) => slug = FALLBACK_SLUG

\* C3 witness: the keywords did not look like a template, the cut at
\* max_length made them look like one, and the fallback was returned.
C3_Witness ==
    /\ slug_pc = "called"
    /\ ~MatchesTemplatePattern(keyword_slug(text))
    /\ MatchesTemplatePattern(truncated_slug(keyword_slug(text), max_length))
    /\ slug = FALLBACK_SLUG

\* C3 witness of the empty case: a heading of hyphens only.
C3_WitnessHyphensOnly ==
    /\ slug_pc = "called"
    /\ text = <<"-", "-", "-">>
    /\ slug = FALLBACK_SLUG

C5_SlugIdempotent ==
    slug_pc = "reslugged" => reslug = slug

\* C5 where neither the fallback constant nor a negative max_length plays a
\* part: re-slugging a slug made of keywords of the heading changes nothing.
C5_SlugIdempotentOnKeywords ==
    (slug_pc = "reslugged" /\ slug # FALLBACK_SLUG /\ max_length >= 0) => reslug = slug

(***************************************************************************)
(* Callers of optimize_title                                               *)
(***************************************************************************)
MaxTitleAtoms == 4

\* pieces of raw titles: the stop word і in both cases and a plain word, each
\* followed by a space, the plain word alone, a dash with and without a
\* space, a full stop and a space
TitleAtoms == {<<"UK_I", " ">>, <<"uk_i", " ">>, <<"a", "b", " ">>, <<"a", "b">>,
               <<"-", " ">>, <<"-">>, <<".">>, <<" ">>}

RECURSIVE TitleTextsUpTo(_)
TitleTextsUpTo(n) ==
    IF n = 0 THEN {<<>>}
    ELSE LET shorter == TitleTextsUpTo(n - 1)
         IN shorter \cup {t \o a : t \in shorter, a \in TitleAtoms}

RawTitles == TitleTextsUpTo(MaxTitleAtoms)

TitleLimits == {-1, 0, 2, 4, 8, DEFAULT_TITLE_LIMIT}

InitTitle ==
    /\ raw_title \in RawTitles
    /\ title_limit \in TitleLimits
    /\ title_pc = "start"
    /\ chosen_title = NoTitle
    /\ title_case = NoTitle
    /\ sentence_case = NoTitle
    /\ SlugIdle
    /\ HistIdle
    /\ ContentIdle
    /\ StoreIdle
    /\ BotIdle
    /\ DbIdle
    /\ BlocksIdle

\* chosen_title, title_case, sentence_case = optimize_title(raw_title, title_limit)
OptimizeTitle ==
    /\ title_pc = "start"
    /\ LET result == optimize_title(raw_title, title_limit)
       IN /\ chosen_title' = result[1]
          /\ title_case' = result[2]
          /\ sentence_case' = result[3]
    /\ title_pc' = "done"
    /\ UNCHANGED <<raw_title, title_limit, slugVars, histVars, contentVars, storeVars, botVars, dbVars, blocksVars>>

NextTitle == OptimizeTitle

SpecTitle == InitTitle /\ [][NextTitle]_vars

(***************************************************************************)
(* Properties of optimize_title                                            *)
(***************************************************************************)
\* the locals of optimize_title for the call recorded in the state
TitleBase == _trim_stop_words(_clean_text(raw_title))

TitleVariant == _truncate(_to_title_case(TitleBase), title_limit)

SentenceVariant == _truncate(_to_sentence_case(TitleBase), title_limit)

IsTitleStopWord(word) == str_lower(word) \in TITLE_STOP_WORDS

\* how many of the words are equal to w
Occurrences(words, w) == Cardinality({i \in 1..Len(words) : words[i] = w})

LowerWords(words) == [i \in 1..Len(words) |-> str_lower(words[i])]

\* C6: for a non-negative max_length both case variants optimize_title
\* returns are at most max_length characters long, also when an empty
\* variant is replaced by the chosen or default title.
C6_TitleVariantsWithinBudget ==
    (title_pc = "done" /\ title_limit >= 0) =>
        /\ Len(title_case) <= title_limit
        /\ Len(sentence_case) <= title_limit

C8_ChosenTitleAsStated ==
    title_pc = "done" =>
        /\ chosen_title # <<>>
        /\ chosen_title =
              IF TitleVariant = <<>> /\ SentenceVariant = <<>> THEN DEFAULT_TITLE
              ELSE IF Len(TitleVariant) <= title_limit THEN TitleVariant
              ELSE SentenceVariant

\* C8 amended: the chosen title is the title-case variant if that variant
\* fits max_length and the sentence-case variant otherwise; if the variant
\* so selected is empty (both variants empty, or an empty title-case variant
\* next to a sentence-case variant of one space) it is the default title; it
\* is never empty.
C8_ChosenTitle ==
    title_pc = "done" =>
        LET selected == IF Len(TitleVariant) <= title_limit
                        THEN TitleVariant ELSE SentenceVariant
        IN /\ chosen_title # <<>>
           /\ chosen_title = IF selected = <<>> THEN DEFAULT_TITLE ELSE selected

\* C8 witness: a title of dashes only; the title-case variant is empty, the
\* sentence-case variant is one space, and the default title is chosen.
C8_Witness ==
    /\ title_pc = "done"
    /\ title_limit > 0
    /\ TitleVariant = <<>>
    /\ SentenceVariant = <<" ">>
    /\ chosen_title = DEFAULT_TITLE
    /\ sentence_case = <<" ">>

\* C8 witness of the other branches: the title-case variant was chosen as it
\* fits, and (for a negative max_length) the sentence-case variant was chosen.
C8_WitnessTitleCase ==
    /\ title_pc = "done"
    /\ chosen_title = TitleVariant
    /\ chosen_title # SentenceVariant

C8_WitnessSentenceCase ==
    /\ title_pc = "done"
    /\ chosen_title = SentenceVariant
    /\ chosen_title # TitleVariant

\* the text in front of the ellipsis marker of a truncated variant, without
\* the punctuation and the space the cut leaves at its end and without a
\* space at its start
BeforeEllipsis(s) ==
    str_rstrip(str_lstrip(s, {" "}),
               {".", "-", "en_dash", "em_dash", ":", ";", ",", " "})

\* the texts made of the first k words of a variant
WholeWordPrefixes(s) ==
    LET words == str_split(s)
    IN {BeforeEllipsis(str_join(<<" ">>, SubSeq(words, 1, k))) : k \in 0..Len(words)}

\* C24: a variant that is over budget is cut between words: what stands in
\* front of the ellipsis marker of the truncated variant is a run of complete
\* words from the start of the variant.
C24_TruncationKeepsWholeWords ==
    (title_pc = "done" /\ title_limit >= 0) =>
        /\ (Len(_to_title_case(TitleBase)) > title_limit /\ TitleVariant # <<>>)
              => BeforeEllipsis(title_case) \in WholeWordPrefixes(_to_title_case(TitleBase))
        /\ (Len(_to_sentence_case(TitleBase)) > title_limit /\ SentenceVariant # <<>>)
              => BeforeEllipsis(sentence_case)
                    \in WholeWordPrefixes(_to_sentence_case(TitleBase))

\* C30: for every raw title and every max_length that is not negative the
\* chosen title optimize_title returns equals the title-case variant it
\* returns: both variants are cut to max_length before the choice, so the
\* title-case variant always fits and the sentence-case variant is never the
\* one chosen in its place.
C30_ChosenIsTitleCase ==
    (title_pc = "done" /\ title_limit >= 0) =>
        /\ chosen_title = title_case
        /\ Len(TitleVariant) <= title_limit

\* C30 witness: a title over budget whose variants differ after the cut; the
\* title-case variant is the chosen one
C30_Witness ==
    /\ title_pc = "done"
    /\ title_limit > 0
    /\ Len(_to_title_case(TitleBase)) > title_limit
    /\ title_case # sentence_case
    /\ chosen_title = title_case
    /\ chosen_title = TitleVariant

\* C30 witness: both variants empty, the default title returned for each
C30_WitnessDefault ==
    /\ title_pc = "done"
    /\ title_limit >= 0
    /\ TitleVariant = <<>>
    /\ chosen_title = DEFAULT_TITLE
    /\ title_case = DEFAULT_TITLE

(***************************************************************************)
(* Callers of history.py                                                   *)
(***************************************************************************)
MaxRecords == 3

\* the record and the draft of the end-to-end scenario: the article
\* "Ремонт квартир у Варшаві" in the history, the draft about Краків
WarsawRecord ==
    [title |-> <<"UK_R", "uk_e", "uk_m", "uk_o", "uk_n", "uk_t", " ", "uk_k", "uk_v",
                "uk_a", "uk_r", "uk_t", "uk_y", "uk_r", " ", "uk_u", " ", "UK_V",
                "uk_a", "uk_r", "uk_sh", "uk_a", "uk_v", "uk_i">>,
     slug |-> <<"r", "e", "m", "o", "n", "t", "-", "k", "v", "a", "r", "t", "y", "r", "-",
              "u", "-", "v", "a", "r", "s", "h", "a", "v", "i">>,
     url |-> <<"h", "t", "t", "p", "s", ":", "/", "/", "x", "/", "r", "e", "m", "o", "n",
              "t", "-", "k", "v", "a", "r", "t", "y", "r", "-", "u", "-", "v", "a", "r",
              "s", "h", "a", "v", "i", "/">>,
     tags |-> <<<<"uk_r", "uk_e", "uk_m", "uk_o", "uk_n", "uk_t">>,
                <<"uk_v", "uk_a", "uk_r", "uk_sh", "uk_a", "uk_v", "uk_a">>>>,
     category |-> <<"UK_P", "uk_o", "uk_s", "uk_l", "uk_u", "uk_h", "uk_y">>]

KrakowDraft ==
    [title |-> <<"UK_YA", "uk_k", " ", "uk_z", "uk_n", "uk_a", "uk_j", "uk_t", "uk_y", " ",
                "uk_k", "uk_l", "uk_i", "uk_ye", "uk_n", "uk_t", "uk_i", "uk_v", " ",
                "uk_n", "uk_a", " ", "UK_R", "uk_e", "uk_m", "uk_o", "uk_n", "uk_t", " ",
                "uk_k", "uk_v", "uk_a", "uk_r", "uk_t", "uk_y", "uk_r", " ", "uk_v",
                " ", "UK_K", "uk_r", "uk_a", "uk_k", "uk_o", "uk_v", "uk_i">>,
     slug |-> <<"r", "e", "m", "o", "n", "t", "-", "k", "v", "a", "r", "t", "y", "r", "-",
              "v", "-", "k", "r", "a", "k", "o", "v", "i">>,
     tags |-> <<<<"uk_r", "uk_e", "uk_m", "uk_o", "uk_n", "uk_t">>,
                <<"uk_k", "uk_r", "uk_a", "uk_k", "uk_i", "uk_v">>,
                <<"uk_p", "uk_o", "uk_s", "uk_l", "uk_u", "uk_h", "uk_y">>>>,
     category |-> <<"UK_P", "uk_o", "uk_s", "uk_l", "uk_u", "uk_h", "uk_y">>]

\* the drafts of a cycle
Drafts == {
    [title |-> <<"A", "b", " ", "c", "d">>, slug |-> <<"s", "1">>,
     tags |-> <<<<"E", "f">>>>, category |-> <<"K">>],
    [title |-> <<"e", "f">>, slug |-> <<"s", "2">>,
     tags |-> <<<<"c", "d">>>>, category |-> <<"k">>],
    [title |-> <<"g", "h">>, slug |-> <<"s", "9">>,
     tags |-> <<>>, category |-> <<>>],
    KrakowDraft
}

\* the records a history file can hold: records written by add_article_record
\* and records of other origin with keys missing or an empty url
RecordPool == {
    [title |-> <<"A", "b", " ", "c", "d">>, slug |-> <<"s", "1">>, url |-> <<"u", "1">>,
     tags |-> <<<<"E", "f">>>>, category |-> <<"K">>],
    [title |-> <<" ", "A", "B", " ", "C", "D", " ">>, slug |-> <<"s", "2">>,
     tags |-> <<<<"a", "b">>>>, category |-> <<"k">>],
    [title |-> <<"a", "b", " ", " ", "c", "d">>, slug |-> <<"s", "3">>, url |-> <<>>,
     tags |-> <<<<"c", "d">>>>, category |-> <<"K">>],
    [title |-> <<"c", "d">>, slug |-> <<"s", "4">>, url |-> <<"u", "4">>,
     tags |-> <<>>, category |-> <<"k">>],
    [title |-> <<"g", "h">>, slug |-> <<"s", "5">>, url |-> <<"u", "5">>,
     tags |-> <<<<"g", "h">>>>, category |-> <<"M">>],
    [slug |-> <<"s", "6">>, url |-> <<"u", "6">>, tags |-> <<<<"A", "B">>, <<"E", "F">>>>],
    [title |-> <<"a", "b">>, url |-> <<"u", "7">>],
    [title |-> <<"e", "f">>, slug |-> <<"s", "8">>, url |-> <<"u", "8">>,
     tags |-> <<<<"A", "B">>>>, category |-> <<"M">>],
    WarsawRecord
}

RECURSIVE RecordListsUpTo(_)
RecordListsUpTo(n) ==
    IF n = 0 THEN {<<>>}
    ELSE LET shorter == RecordListsUpTo(n - 1)
         IN shorter \cup {Append(l, r) : l \in shorter, r \in RecordPool}

\* a title in another letter case and with whitespace around it
AltTitles(title) ==
    {left \o cased \o right :
        left \in {<<>>, <<" ">>},
        cased \in {title, str_upper(title), str_lower(title)},
        right \in {<<>>, <<"\t", " ">>}}

InitHistory ==
    /\ history_records \in RecordListsUpTo(MaxRecords)
    /\ article \in Drafts
    /\ alt_title = article.title
    /\ max_links = DEFAULT_MAX_LINKS
    /\ hist_pc = "start"
    /\ dup_result = FALSE
    /\ alt_dup_result = FALSE
    /\ links = <<>>
    /\ link_sources = <<>>
    /\ SlugIdle
    /\ TitleIdle
    /\ ContentIdle
    /\ StoreIdle
    /\ BotIdle
    /\ DbIdle
    /\ BlocksIdle

\* is_duplicate_title(article.title, history_records)
IsDuplicateTitle ==
    /\ hist_pc = "start"
    /\ dup_result' = is_duplicate_title(article.title, history_records)
    /\ hist_pc' = "dup_checked"
    /\ UNCHANGED <<history_records, article, alt_title, max_links, alt_dup_result,
                   links, link_sources, slugVars, titleVars, contentVars, storeVars, botVars, dbVars, blocksVars>>

\* is_duplicate_title(alt_title, history_records) for the title written in
\* another letter case and padding
IsDuplicateAltTitle ==
    /\ hist_pc = "dup_checked"
    /\ alt_title' \in AltTitles(article.title)
    /\ alt_dup_result' = is_duplicate_title(alt_title', history_records)
    /\ hist_pc' = "alt_checked"
    /\ UNCHANGED <<history_records, article, max_links, dup_result,
                   links, link_sources, slugVars, titleVars, contentVars, storeVars, botVars, dbVars, blocksVars>>

\* find_internal_links(article, history_records, max_links)
FindInternalLinks ==
    /\ hist_pc = "dup_checked"
    /\ max_links' \in 0..DEFAULT_MAX_LINKS
    /\ links' = find_internal_links(article, history_records, max_links')
    /\ link_sources' =
          LET selected == selected_records(article, history_records, max_links')
          IN [k \in 1..Len(selected) |-> selected[k][2]]
    /\ hist_pc' = "linked"
    /\ UNCHANGED <<history_records, article, alt_title, dup_result,
                   alt_dup_result, slugVars, titleVars, contentVars, storeVars, botVars, dbVars, blocksVars>>

NextHistory == IsDuplicateTitle \/ IsDuplicateAltTitle \/ FindInternalLinks

SpecHistory == InitHistory /\ [][NextHistory]_vars

(***************************************************************************)
(* Properties of history.py                                                *)
(***************************************************************************)
\* s without the whitespace around it
Core(s) ==
    LET inner == {i \in 1..Len(s) : s[i] \notin Whitespace}
    IN IF inner = {} THEN <<>>
       ELSE SubSeq(s, CHOOSE i \in inner : \A j \in inner : i <= j,
                      CHOOSE i \in inner : \A j \in inner : i >= j)

\* a and b are equal up to letter case and surrounding whitespace
EqualUpToCaseAndPadding(a, b) ==
    /\ Len(Core(a)) = Len(Core(b))
    /\ \A i \in 1..Len(Core(a)) : lower_char(Core(a)[i]) = lower_char(Core(b)[i])

\* C9: is_duplicate_title(title, records) is true exactly when the title of
\* some record equals the given title up to letter case and surrounding
\* whitespace; so a title and the same title in another letter case and
\* padding get the same answer from the same records.
C9_DuplicateTitleNormalized ==
    /\ hist_pc \in {"dup_checked", "alt_checked", "linked"} =>
          (dup_result <=> \E i \in 1..Len(history_records) :
              EqualUpToCaseAndPadding(article.title,
                                      dict_get(history_records[i], "title", <<>>)))
    /\ hist_pc = "alt_checked" => alt_dup_result = dup_result

\* C9 witness: a duplicate was found although no record holds the title as
\* written, and the title in another case and padding was found too.
C9_Witness ==
    /\ hist_pc = "alt_checked"
    /\ dup_result
    /\ alt_dup_result
    /\ alt_title # article.title
    /\ \A i \in 1..Len(history_records) :
           dict_get(history_records[i], "title", <<>>) # article.title

\* C10: find_internal_links returns no link built from a record whose slug is
\* the article's own slug, whatever its token overlap, and none built from a
\* record without a url or with an empty one.
C10_NoOwnSlugNoMissingUrl ==
    hist_pc = "linked" =>
        /\ Len(link_sources) = Len(links)
        /\ \A k \in 1..Len(links) :
              LET rec == history_records[link_sources[k]]
              IN /\ dict_get(rec, "slug", None) # article.slug
                 /\ "url" \in DOMAIN rec
                 /\ rec.url # <<>>
                 /\ links[k].url = rec.url
                 /\ links[k].url # <<>>

\* C10 witness: the history holds the article's own record (same slug, same
\* title, tags and category) and a record without url that shares tokens;
\* a link was returned, and it is built from neither.
C10_Witness ==
    /\ hist_pc = "linked"
    /\ links # <<>>
    /\ \E i \in 1..Len(history_records) :
           /\ dict_get(history_records[i], "slug", None) = article.slug
           /\ rec_tokens(history_records[i]) = article_tokens(article)
           /\ dict_get(history_records[i], "url", <<>>) # <<>>
    /\ \E i \in 1..Len(history_records) :
           /\ dict_get(history_records[i], "url", <<>>) = <<>>
           /\ rec_tokens(history_records[i]) \cap article_tokens(article) # {}

\* the token set of a record, as words: its tags and its category in lower
\* case and the words of its title in lower case
TokenSet(tags, title, category, with_category) ==
    {str_lower(tags[i]) : i \in 1..Len(tags)}
        \cup history_tokenize(title)
        \cup (IF with_category THEN {str_lower(category)} ELSE {})

ArticleTokenSet == TokenSet(article.tags, article.title, article.category, TRUE)

RecordTokenSet(i) ==
    LET rec == history_records[i]
    IN TokenSet(dict_get(rec, "tags", <<>>), dict_get(rec, "title", <<>>),
                dict_get(rec, "category", <<>>), dict_get(rec, "category", <<>>) # <<>>)

SharedTokens(i) == ArticleTokenSet \cap RecordTokenSet(i)

\* C11: a record whose token set shares no token with the article's token set
\* is never returned by find_internal_links, also when fewer than max_links
\* candidates qualify; the result is then shorter than max_links, possibly
\* empty.
C11_ZeroOverlapNeverReturned ==
    hist_pc = "linked" =>
        /\ \A k \in 1..Len(link_sources) : SharedTokens(link_sources[k]) # {}
        /\ Len(links) <= max_links

\* C11 witness: the history holds a record of another slug, with a url,
\* that shares no token with the article, while slots remain: fewer than
\* max_links links were returned.
C11_Witness ==
    /\ hist_pc = "linked"
    /\ Len(links) < max_links
    /\ \E i \in 1..Len(history_records) :
           /\ SharedTokens(i) = {}
           /\ dict_get(history_records[i], "slug", None) # article.slug
           /\ dict_get(history_records[i], "url", <<>>) # <<>>

\* C11 witness: such a record has the article's category (both have none),
\* and nothing is returned.
C11_WitnessEmpty ==
    /\ hist_pc = "linked"
    /\ links = <<>>
    /\ \E i \in 1..Len(history_records) :
           /\ SharedTokens(i) = {}
           /\ dict_get(history_records[i], "slug", None) # article.slug
           /\ dict_get(history_records[i], "url", <<>>) # <<>>
           /\ dict_get(history_records[i], "category", <<>>) = article.category

\* a record find_internal_links may return
Eligible(i) ==
    /\ dict_get(history_records[i], "slug", None) # article.slug
    /\ dict_get(history_records[i], "url", <<>>) # <<>>
    /\ SharedTokens(i) # {}

\* token overlap plus 1 for a category match up to letter case
Score(i) ==
    Cardinality(SharedTokens(i))
        + (IF str_lower(dict_get(history_records[i], "category", <<>>))
                  = str_lower(article.category) THEN 1 ELSE 0)

\* record i ranks before record j: higher score, or equal score and appended
\* to the history later
RanksBefore(i, j) == Score(i) > Score(j) \/ (Score(i) = Score(j) /\ i > j)

EligibleRecords == {i \in 1..Len(history_records) : Eligible(i)}

\* C12: the list find_internal_links returns is exactly the first max_links
\* eligible candidates in the order of score descending, the record appended
\* more recently first among equal scores.
C12_TopLinksByScoreThenRecency ==
    hist_pc = "linked" =>
        /\ Len(links) = IF Cardinality(EligibleRecords) < max_links
                        THEN Cardinality(EligibleRecords) ELSE max_links
        /\ \A k \in 1..Len(links) :
              /\ link_sources[k] \in EligibleRecords
              /\ links[k] = [title |-> dict_get(history_records[link_sources[k]], "title", <<>>),
                             url |-> history_records[link_sources[k]].url]
              /\ \A n \in 1..(k - 1) : RanksBefore(link_sources[n], link_sources[k])
              /\ \A j \in EligibleRecords :
                    j \in {link_sources[n] : n \in 1..Len(links)}
                        \/ RanksBefore(link_sources[k], j)

\* C12 witness: three eligible records, two of them different records of
\* equal score; the more recent of the two comes first and a lower-ranked
\* candidate is left out.
C12_Witness ==
    /\ hist_pc = "linked"
    /\ Len(links) = 2
    /\ Cardinality(EligibleRecords) = 3
    /\ Score(link_sources[1]) = Score(link_sources[2])
    /\ link_sources[1] > link_sources[2]
    /\ links[1] # links[2]

\* C13: with a history holding only the Warsaw record and the Krakow draft,
\* find_internal_links with max_links = 2 returns exactly one link, with the
\* title and url of the Warsaw record; and whenever exactly one record of the
\* history is eligible and max_links is at least 1, the result is the one
\* link built from that record.
C13_SingleCandidateSingleLink ==
    hist_pc = "linked" =>
        /\ (history_records = <<WarsawRecord>> /\ article = KrakowDraft /\ max_links = 2) =>
              links = <<[title |-> WarsawRecord.title, url |-> WarsawRecord.url]>>
        /\ (Cardinality(EligibleRecords) = 1 /\ max_links >= 1) =>
              LET only == CHOOSE i \in EligibleRecords : TRUE
              IN links = <<[title |-> dict_get(history_records[only], "title", <<>>),
                            url |-> history_records[only].url]>>

\* C13 witness: the scenario, after the call, with its one link
C13_Witness ==
    /\ hist_pc = "linked"
    /\ history_records = <<WarsawRecord>>
    /\ article = KrakowDraft
    /\ max_links = 2
    /\ Len(links) = 1
    /\ links[1].url = WarsawRecord.url
    /\ Score(1) = 4

\* C13 witness of the general case: several records, one of them eligible
C13_WitnessOneOfMany ==
    /\ hist_pc = "linked"
    /\ Len(history_records) = MaxRecords
    /\ Cardinality(EligibleRecords) = 1
    /\ max_links = 2
    /\ Len(links) = 1

(***************************************************************************)
(* Callers of content_enhancer.py                                          *)
(***************************************************************************)
MaxHtmlAtoms == 2

\* pieces of html: a paragraph, a newline, the marker url fragment whole and
\* in two halves in other letter cases, the marker phrase in upper case, the
\* opening tag of a CTA block, the whole CTA block, the internal-links marker
HtmlAtoms == {
    <<"<", "p", ">", "x", "<", "/", "p", ">">>,
    <<"\n">>,
    ADD_LISTING,
    <<"A", "d", "d", "-">>,
    <<"L", "I", "S", "T", "I", "N", "G">>,
    str_upper(CTA_TEXT),
    cta_marker,
    CTA_BLOCK,
    INTERNAL_LINKS
}

RECURSIVE HtmlTextsUpTo(_)
HtmlTextsUpTo(n) ==
    IF n = 0 THEN {<<>>}
    ELSE LET shorter == HtmlTextsUpTo(n - 1)
         IN shorter \cup {h \o atom : h \in shorter, atom \in HtmlAtoms}

\* the links find_internal_links can return, and one with an empty url
LinkPool == {
    [title |-> <<"T">>, url |-> <<"u">>],
    [title |-> <<"V">>, url |-> <<"w">>],
    [title |-> <<"N">>, url |-> <<>>]
}

LinkLists ==
    {<<>>} \cup {<<l>> : l \in LinkPool} \cup {<<l, m>> : l \in LinkPool, m \in LinkPool}

InitContent ==
    /\ raw_html \in HtmlTextsUpTo(MaxHtmlAtoms)
    /\ internal_links \in LinkLists
    /\ content_pc = "start"
    /\ cta_html = NoHtml
    /\ cta_html_again = NoHtml
    /\ linked_html = NoHtml
    /\ linked_raw_html = NoHtml
    /\ SlugIdle
    /\ TitleIdle
    /\ HistIdle
    /\ StoreIdle
    /\ BotIdle
    /\ DbIdle
    /\ BlocksIdle

\* html_content = ensure_cta_block(html_content) (seo_generator.py:186)
EnsureCtaBlock ==
    /\ content_pc = "start"
    /\ cta_html' = ensure_cta_block(raw_html)
    /\ content_pc' = "ensured"
    /\ UNCHANGED <<raw_html, internal_links, cta_html_again, linked_html, linked_raw_html,
                   slugVars, titleVars, histVars, storeVars, botVars, dbVars, blocksVars>>

\* ensure_cta_block on its own result
EnsureCtaBlockAgain ==
    /\ content_pc = "ensured"
    /\ cta_html_again' = ensure_cta_block(cta_html)
    /\ content_pc' = "ensured_twice"
    /\ UNCHANGED <<raw_html, internal_links, cta_html, linked_html, linked_raw_html,
                   slugVars, titleVars, histVars, storeVars, botVars, dbVars, blocksVars>>

\* article.html_content = inject_internal_links(article.html_content,
\* internal_links) (bot.py:101)
InjectInternalLinks ==
    /\ content_pc = "ensured"
    /\ linked_html' = inject_internal_links(cta_html, internal_links)
    /\ content_pc' = "injected"
    /\ UNCHANGED <<raw_html, internal_links, cta_html, cta_html_again, linked_raw_html,
                   slugVars, titleVars, histVars, storeVars, botVars, dbVars, blocksVars>>

\* inject_internal_links on a content that did not go through ensure_cta_block
InjectIntoRawHtml ==
    /\ content_pc = "start"
    /\ linked_raw_html' = inject_internal_links(raw_html, internal_links)
    /\ content_pc' = "raw_injected"
    /\ UNCHANGED <<raw_html, internal_links, cta_html, cta_html_again, linked_html,
                   slugVars, titleVars, histVars, storeVars, botVars, dbVars, blocksVars>>

NextContent ==
    EnsureCtaBlock \/ EnsureCtaBlockAgain \/ InjectInternalLinks \/ InjectIntoRawHtml

SpecContent == InitContent /\ [][NextContent]_vars

(***************************************************************************)
(* Properties of content_enhancer.py                                       *)
(***************************************************************************)
\* the marker phrase or the marker url fragment is in h, in any letter case
HasCtaMarker(h) ==
    \E marker \in {CTA_TEXT, ADD_LISTING} :
        \E i \in 1..(Len(h) - Len(marker) + 1) :
            \A k \in 1..Len(marker) : lower_char(h[i + k - 1]) = lower_char(marker[k])

\* C14: ensure_cta_block(ensure_cta_block(h)) = ensure_cta_block(h), and
\* ensure_cta_block(h) = h whenever h holds the marker phrase or the marker
\* url fragment in any letter case.
C14_CtaBlockIdempotent ==
    /\ content_pc = "ensured_twice" => cta_html_again = cta_html
    /\ (content_pc \in {"ensured", "ensured_twice", "injected"} /\ HasCtaMarker(raw_html)) =>
          cta_html = raw_html

\* C14 witness: the block was appended by the first call and the second
\* call changed nothing.
C14_Witness ==
    /\ content_pc = "ensured_twice"
    /\ cta_html # raw_html
    /\ cta_html_again = cta_html

\* C14 witness: a content that holds the url fragment in another letter
\* case, across two pieces, came back unchanged.
C14_WitnessMarkerPresent ==
    /\ content_pc = "ensured"
    /\ HasCtaMarker(raw_html)
    /\ ~str_contains(raw_html, ADD_LISTING)
    /\ ~str_contains(raw_html, CTA_TEXT)
    /\ cta_html = raw_html

\* inject_internal_links adds a block for this content: some link has a
\* non-empty url and the content has no internal-links marker
BlockIsAdded(content) ==
    /\ \E k \in 1..Len(internal_links) : internal_links[k].url # <<>>
    /\ ~str_contains(content, INTERNAL_LINKS)

TheLinksBlock == links_block(link_items(internal_links))

\* the first position in h of the marker phrase or the marker url fragment,
\* in any letter case; Len(h) + 1 if h has neither
FirstCallToAction(h) ==
    LET hits == {i \in 1..Len(h) :
                    \E marker \in {CTA_TEXT, ADD_LISTING} :
                        /\ i + Len(marker) - 1 <= Len(h)
                        /\ \A k \in 1..Len(marker) :
                               lower_char(h[i + k - 1]) = lower_char(marker[k])}
    IN IF hits = {} THEN Len(h) + 1 ELSE CHOOSE i \in hits : \A j \in hits : i <= j

\* out is content with the links block immediately before the first CTA
\* block of content if it has one, at the end otherwise
PlacedAsStated(content, out) ==
    LET at == str_find(out, TheLinksBlock)
        behind == at + Len(TheLinksBlock)
    IN /\ at >= 3
       /\ IF str_contains(content, cta_marker)
          THEN /\ behind + 1 <= Len(out)
               /\ SubSeq(out, behind, behind + 1) = <<"\n", "\n">>
               /\ str_find(out, cta_marker) = behind + 2
               /\ SubSeq(out, behind + 2, Len(out))
                     = SubSeq(content, str_find(content, cta_marker), Len(content))
               /\ SubSeq(out, 1, at - 3)
                     = str_rstrip(SubSeq(content, 1, str_find(content, cta_marker) - 1),
                                  Whitespace)
          ELSE /\ SubSeq(out, behind, Len(out)) = <<"\n">>
               /\ SubSeq(out, 1, at - 3) = str_rstrip(content, Whitespace)

\* the first part of C15, for a content that went through ensure_cta_block
\* and for one that did not
C15_Placement ==
    /\ (content_pc = "injected" /\ BlockIsAdded(cta_html)) =>
          PlacedAsStated(cta_html, linked_html)
    /\ (content_pc = "raw_injected" /\ BlockIsAdded(raw_html)) =>
          PlacedAsStated(raw_html, linked_raw_html)

\* C15 as stated: a links block that inject_internal_links adds stands
\* immediately before the CTA block if the content has one and at the end
\* otherwise; so after ensure_cta_block and inject_internal_links the links
\* block always precedes the call-to-action.
C15_LinksBeforeCtaAsStated ==
    /\ C15_Placement
    /\ (content_pc = "injected" /\ BlockIsAdded(cta_html)) =>
          str_find(linked_html, TheLinksBlock) < FirstCallToAction(linked_html)

\* C15 amended: a links block that inject_internal_links adds stands
\* immediately before the first <div class="cta-block"> of the content if it
\* has one and at the end otherwise; after ensure_cta_block and
\* inject_internal_links the links block precedes every call-to-action if
\* ensure_cta_block appended its block, and it stands at the end, behind the
\* call-to-action, if ensure_cta_block accepted a content that holds the
\* marker phrase or url fragment but no <div class="cta-block">.
C15_LinksBeforeCtaBlock ==
    /\ C15_Placement
    /\ (content_pc = "injected" /\ BlockIsAdded(cta_html)) =>
          /\ cta_html # raw_html =>
                /\ str_contains(cta_html, cta_marker)
                /\ str_find(linked_html, TheLinksBlock) < FirstCallToAction(linked_html)
          /\ ~str_contains(cta_html, cta_marker) =>
                /\ cta_html = raw_html
                /\ FirstCallToAction(linked_html) < str_find(linked_html, TheLinksBlock)

\* C15 witness: ensure_cta_block appended its block to a non-empty content
\* and the links block went in front of it.
C15_Witness ==
    /\ content_pc = "injected"
    /\ BlockIsAdded(cta_html)
    /\ str_rstrip(raw_html, Whitespace) # <<>>
    /\ cta_html # raw_html
    /\ Len(internal_links) = 2
    /\ str_find(linked_html, TheLinksBlock) < str_find(linked_html, CTA_BLOCK)

\* C15 witness: a content without CTA block got the links block at its end
C15_WitnessAppended ==
    /\ content_pc = "raw_injected"
    /\ BlockIsAdded(raw_html)
    /\ str_rstrip(raw_html, Whitespace) # <<>>
    /\ ~str_contains(raw_html, cta_marker)
    /\ linked_raw_html # raw_html

(***************************************************************************)
(* The persisted history: load_history, add_article_record, save_history   *)
(***************************************************************************)
MaxStored == 2

\* the articles of the cycles: two of them with one slug, one with slashes
\* around its slug
StoreArticles == {
    [title |-> <<"T", "1">>, slug |-> <<"s", "1">>, tags |-> <<>>, category |-> <<"K">>],
    [title |-> <<"T", "2">>, slug |-> <<"s", "1">>, tags |-> <<>>, category |-> <<"K">>],
    [title |-> <<"T", "3">>, slug |-> <<"/", "s", "2", "/">>, tags |-> <<<<"g">>>>,
     category |-> <<"M">>],
    [title |-> <<"T", "4">>, slug |-> <<"s", "3">>, tags |-> <<>>, category |-> <<>>]
}

\* get_wp_url()
WpUrls == {<<"w">>, <<"w", "/">>}

SlugUnique(records) ==
    \A i, j \in 1..Len(records) :
        i # j => dict_get(records[i], "slug", None) # dict_get(records[j], "slug", None)

\* the slug-unique lists of up to n records of the articles
RECURSIVE StoredListsUpTo(_)
StoredListsUpTo(n) ==
    IF n = 0 THEN {<<>>}
    ELSE LET shorter == StoredListsUpTo(n - 1)
         IN shorter \cup
            {Append(l, make_record(a, w)) :
                <<a, w, l>> \in {x \in StoreArticles \X WpUrls \X shorter :
                                   SlugUnique(Append(x[3], make_record(x[1], x[2])))}}

\* what HISTORY_FILE can hold at the start: nothing, a file that cannot be
\* opened, the text of a saved list, the start of such a text, an empty text,
\* text that is no JSON, JSON that is no list
InitialFiles ==
    {MissingFile}
      \cup {[exists |-> TRUE, readable |-> FALSE, text |-> json_dump(l)] :
               l \in StoredListsUpTo(1)}
      \cup {[exists |-> TRUE, readable |-> TRUE, text |-> json_dump(l)] :
               l \in StoredListsUpTo(MaxStored)}
      \cup {[exists |-> TRUE, readable |-> TRUE,
             text |-> SubSeq(json_dump(l), 1, Len(json_dump(l)) - k)] :
               l \in StoredListsUpTo(1), k \in 1..2}
      \cup {[exists |-> TRUE, readable |-> TRUE, text |-> txt] :
               txt \in {<<>>, <<Punct("x")>>, <<Punct("null")>>,
                        <<Punct("{"), Fields([a |-> 1]), Punct("}")>>}}

InitStore ==
    /\ history_file \in InitialFiles
    /\ store_records = <<>>
    /\ store_pc = "boot"
    /\ write_rest = <<>>
    /\ load_raised = FALSE
    /\ recovered = FALSE
    /\ saved_over = <<>>
    /\ saved_list = <<>>
    /\ add_called = FALSE
    /\ add_existed = FALSE
    /\ add_before = <<>>
    /\ add_file_before = MissingFile
    /\ add_saved = FALSE
    /\ add_returned = <<>>
    /\ SlugIdle
    /\ TitleIdle
    /\ HistIdle
    /\ ContentIdle
    /\ BotIdle
    /\ DbIdle
    /\ BlocksIdle

\* history_records = load_history() at the start of main (bot.py:63), also
\* after the process stopped and was started again
LoadHistory ==
    /\ store_pc \in {"boot", "stopped"}
    /\ store_records' = load_history(history_file).value
    /\ load_raised' = load_history(history_file).raised
    /\ recovered' = (store_pc = "stopped")
    /\ store_pc' = "ready"
    /\ write_rest' = <<>>
    /\ UNCHANGED <<history_file, saved_over, saved_list, add_called, add_existed,
                   add_before, add_file_before, add_saved, add_returned,
                   slugVars, titleVars, histVars, contentVars, botVars, dbVars, blocksVars>>

\* add_article_record(article, wp_url, records) up to the open() of
\* save_history: mkdir, then open(HISTORY_FILE, "w") empties the file, or
\* raises for a file that cannot be opened
AddArticleRecord ==
    /\ store_pc = "ready"
    /\ \E a \in StoreArticles, wp_url \in WpUrls :
          LET result == add_article_record(a, wp_url, store_records)
              opens == ~history_file.exists \/ history_file.readable
          IN /\ add_called' = TRUE
             /\ add_existed' = slug_exists(a, store_records)
             /\ add_before' = store_records
             /\ add_file_before' = history_file
             /\ add_saved' = result.save
             /\ add_returned' = result.records
             /\ store_records' = result.records
             /\ IF result.save /\ opens
                THEN /\ history_file' = [exists |-> TRUE, readable |-> TRUE, text |-> <<>>]
                     /\ write_rest' = json_dump(result.records)
                     /\ saved_over' = load_history(history_file).value
                     /\ saved_list' = result.records
                     /\ store_pc' = "writing"
                ELSE UNCHANGED <<history_file, write_rest, saved_over, saved_list, store_pc>>
    /\ recovered' = FALSE
    /\ UNCHANGED <<load_raised, slugVars, titleVars, histVars, contentVars, botVars, dbVars, blocksVars>>

\* json.dump writes the next piece; the file is closed after the last one
SaveWrite ==
    /\ store_pc = "writing"
    /\ history_file' = [history_file EXCEPT !.text = Append(@, Head(write_rest))]
    /\ write_rest' = Tail(write_rest)
    /\ store_pc' = IF Len(write_rest) = 1 THEN "ready" ELSE "writing"
    /\ UNCHANGED <<store_records, load_raised, recovered, saved_over, saved_list,
                   add_called, add_existed, add_before, add_file_before, add_saved,
                   add_returned, slugVars, titleVars, histVars, contentVars, botVars, dbVars, blocksVars>>

\* the process stops during the save
StopInSave ==
    /\ store_pc = "writing"
    /\ store_pc' = "stopped"
    /\ UNCHANGED <<history_file, store_records, write_rest, load_raised, recovered,
                   saved_over, saved_list, add_called, add_existed, add_before,
                   add_file_before, add_saved, add_returned,
                   slugVars, titleVars, histVars, contentVars, botVars, dbVars, blocksVars>>

NextStore == LoadHistory \/ AddArticleRecord \/ SaveWrite \/ StopInSave

SpecStore == InitStore /\ [][NextStore]_vars

(***************************************************************************)
(* Properties of the persisted history                                     *)
(***************************************************************************)
\* C16: add_article_record called with an article whose slug is in the list
\* leaves the list as it was, writes nothing to HISTORY_FILE and returns the
\* list it was given.
C16_ExistingSlugIsNoOp ==
    (add_called /\ add_existed) =>
        /\ add_returned = add_before
        /\ store_records = add_before
        /\ ~add_saved
        /\ history_file = add_file_before
        /\ store_pc = "ready"

\* C16 witness: the call was made on a list of two records, one of them with
\* the article's slug, and on a file that holds the list.
C16_Witness ==
    /\ add_called
    /\ add_existed
    /\ Len(add_before) = 2
    /\ history_file.text = json_dump(add_before)

\* C17: starting from an empty or slug-unique history, after any sequence of
\* add_article_record calls no two records share a slug, in the list in
\* memory and in the list HISTORY_FILE gives.
C17_SlugsUnique ==
    /\ SlugUnique(store_records)
    /\ SlugUnique(load_history(history_file).value)

\* C17 witness: a history of three records, saved, and a call with a slug
\* that was in it.
C17_Witness ==
    /\ store_pc = "ready"
    /\ Len(store_records) = 3
    /\ load_history(history_file).value = store_records
    /\ add_called
    /\ add_existed

\* C18: if the process stops at any point of a save, the next load_history
\* gives the complete list the file held before the save or the complete
\* list that was being saved.
C18_SaveIsAtomic ==
    (store_pc = "ready" /\ recovered) => store_records \in {saved_over, saved_list}

\* the state right after a load_history call
JustLoaded == store_pc = "ready" /\ (~add_called \/ recovered)

\* the file holds the text of a list
HoldsListText ==
    /\ history_file.exists
    /\ history_file.readable
    /\ \E l \in StoredListsUpTo(MaxStored + 1) : history_file.text = json_dump(l)

\* C19: load_history never raises; a missing file, a file that cannot be
\* read, a text that is no JSON and JSON that is no list all give the empty
\* history (and the text of a list gives that list).
C19_LoadNeverRaises ==
    /\ ~load_raised
    /\ JustLoaded =>
          IF HoldsListText THEN history_file.text = json_dump(store_records)
          ELSE store_records = <<>>

\* C19 witness: JSON that is no list was loaded as the empty history
C19_Witness ==
    /\ JustLoaded
    /\ history_file.exists
    /\ history_file.readable
    /\ Len(history_file.text) = 3
    /\ history_file.text[1].t = "{"
    /\ store_records = <<>>

\* C19 witnesses: a file that cannot be read, the start of a list's text
C19_WitnessUnreadable ==
    /\ JustLoaded
    /\ history_file.exists
    /\ ~history_file.readable
    /\ store_records = <<>>

C19_WitnessCorrupt ==
    /\ JustLoaded
    /\ history_file.readable
    /\ Len(history_file.text) > 3
    /\ ~HoldsListText
    /\ store_records = <<>>

(***************************************************************************)
(* The main loop of bot.py                                                 *)
(***************************************************************************)
\* the (country, city, category) combinations select_task draws from
Tasks == {"task1", "task2", "task3"}

NoTask == "None"

\* what HISTORY_FILE holds when the bot starts
BotFiles ==
    {MissingFile}
      \cup {[exists |-> TRUE, readable |-> TRUE, text |-> json_dump(l)] :
               l \in StoredListsUpTo(1)}

InitBot ==
    /\ history_file \in BotFiles
    /\ store_records = load_history(history_file).value
    /\ store_pc = "idle"
    /\ write_rest = <<>>
    /\ load_raised = FALSE
    /\ recovered = FALSE
    /\ saved_over = <<>>
    /\ saved_list = <<>>
    /\ add_called = FALSE
    /\ add_existed = FALSE
    /\ add_before = <<>>
    /\ add_file_before = MissingFile
    /\ add_saved = FALSE
    /\ add_returned = <<>>
    /\ posted \in SUBSET Tasks
    /\ task = NoTask
    /\ bot_article = NoArticle
    /\ bot_links = <<>>
    /\ bot_pc = "select"
    /\ cycle_end = "none"
    /\ read_dup = FALSE
    /\ read_links = FALSE
    /\ publish_called = FALSE
    /\ published_ok = FALSE
    /\ marked = FALSE
    /\ added = FALSE
    /\ posted_at_start = posted
    /\ file_at_start = history_file
    /\ records_at_start = store_records
    /\ published_titles = {}
    /\ published_twice = FALSE
    /\ SlugIdle
    /\ TitleIdle
    /\ HistIdle
    /\ ContentIdle
    /\ DbIdle
    /\ BlocksIdle

\* what the run has published so far
Published == <<published_titles, published_twice>>

\* the store variables a cycle does not use
StoreRest == <<store_pc, write_rest, load_raised, recovered, saved_over, saved_list,
               add_called, add_existed, add_before, add_file_before, add_saved,
               add_returned>>

OtherParts == <<slugVars, titleVars, histVars, contentVars, dbVars, blocksVars>>

\* the number of attempts select_task makes (max_attempts, 100 in the code)
MaxAttempts == 2

\* the combinations random.choice can give in the attempts of one call
Draws == [1..MaxAttempts -> Tasks]

\* select_task (bot.py:27-48): the first drawn combination is_posted denies,
\* None when max_attempts draws were all of posted combinations
RECURSIVE select_task(_, _)
select_task(draws, posted_rows) ==
    IF draws = <<>> THEN NoTask
    ELSE IF Head(draws) \notin posted_rows THEN Head(draws)
    ELSE select_task(Tail(draws), posted_rows)

\* task = select_task(); if not task: sleep and continue (bot.py:68-72); an
\* sqlite error of is_posted ends the cycle in the except branch; a cycle
\* begins
SelectTask ==
    /\ bot_pc = "select"
    /\ \/ \E draws \in Draws :
             /\ task' = select_task(draws, posted)
             /\ IF select_task(draws, posted) = NoTask
                THEN bot_pc' = "select" /\ cycle_end' = "no_task"
                ELSE bot_pc' = "generate" /\ cycle_end' = "none"
       \/ /\ task' = NoTask
          /\ bot_pc' = "select"
          /\ cycle_end' = "error"
    /\ bot_article' = NoArticle
    /\ bot_links' = <<>>
    /\ read_dup' = FALSE
    /\ read_links' = FALSE
    /\ publish_called' = FALSE
    /\ published_ok' = FALSE
    /\ marked' = FALSE
    /\ added' = FALSE
    /\ posted_at_start' = posted
    /\ file_at_start' = history_file
    /\ records_at_start' = store_records
    /\ UNCHANGED <<history_file, store_records, posted, StoreRest, OtherParts, Published>>

\* steps 2 to 4 (bot.py:75-93): context, image, get_recent_titles and
\* generate_article, which returns an article or raises
GenerateArticle ==
    /\ bot_pc = "generate"
    /\ \/ \E a \in StoreArticles :
             /\ bot_article' = a
             /\ bot_pc' = "dup_check"
             /\ cycle_end' = "none"
       \/ /\ bot_article' = NoArticle
          /\ bot_pc' = "select"
          /\ cycle_end' = "error"
    /\ UNCHANGED <<history_file, store_records, posted, task, bot_links, read_dup,
                   read_links, publish_called, published_ok, marked, added,
                   posted_at_start, file_at_start, records_at_start,
                   StoreRest, OtherParts, Published>>

\* if is_duplicate_title(article.title, history_records): continue
\* (bot.py:95-98)
CheckDuplicateTitle ==
    /\ bot_pc = "dup_check"
    /\ read_dup' = TRUE
    /\ IF is_duplicate_title(bot_article.title, store_records)
       THEN bot_pc' = "select" /\ cycle_end' = "duplicate"
       ELSE bot_pc' = "links" /\ cycle_end' = "none"
    /\ UNCHANGED <<history_file, store_records, posted, task, bot_article, bot_links,
                   read_links, publish_called, published_ok, marked, added,
                   posted_at_start, file_at_start, records_at_start,
                   StoreRest, OtherParts, Published>>

\* internal_links = find_internal_links(article, history_records)
\* (bot.py:100-101)
RecommendLinks ==
    /\ bot_pc = "links"
    /\ read_links' = TRUE
    /\ bot_links' = find_internal_links(bot_article, store_records, DEFAULT_MAX_LINKS)
    /\ bot_pc' = "publish"
    /\ UNCHANGED <<history_file, store_records, posted, task, bot_article, cycle_end,
                   read_dup, publish_called, published_ok, marked, added,
                   posted_at_start, file_at_start, records_at_start,
                   StoreRest, OtherParts, Published>>

\* a publish step after which a failed publish goes on to mark_posted
PublishArticleFallsThrough ==
    /\ bot_pc = "publish"
    /\ publish_called' = TRUE
    /\ \E result \in BOOLEAN :
          /\ published_ok' = result
          /\ bot_pc' = "mark"
          /\ cycle_end' = IF result THEN "none" ELSE "publish_failed"
          /\ published_titles' =
                IF result THEN published_titles \cup {normalized_title(bot_article.title)}
                ELSE published_titles
          /\ published_twice' =
                (published_twice
                   \/ (result /\ normalized_title(bot_article.title) \in published_titles))
    /\ UNCHANGED <<history_file, store_records, posted, task, bot_article, bot_links,
                   read_dup, read_links, marked, added,
                   posted_at_start, file_at_start, records_at_start,
                   StoreRest, OtherParts>>

\* result = publish_article(article, image_id); if not result: continue
\* (bot.py:105-109)
PublishArticle ==
    /\ bot_pc = "publish"
    /\ publish_called' = TRUE
    /\ \E result \in BOOLEAN :
          /\ published_ok' = result
          /\ IF result
             THEN bot_pc' = "mark" /\ cycle_end' = "none"
             ELSE bot_pc' = "select" /\ cycle_end' = "publish_failed"
          /\ published_titles' =
                IF result THEN published_titles \cup {normalized_title(bot_article.title)}
                ELSE published_titles
          /\ published_twice' =
                (published_twice
                   \/ (result /\ normalized_title(bot_article.title) \in published_titles))
    /\ UNCHANGED <<history_file, store_records, posted, task, bot_article, bot_links,
                   read_dup, read_links, marked, added,
                   posted_at_start, file_at_start, records_at_start,
                   StoreRest, OtherParts>>

\* mark_posted(country, city, category) (bot.py:112): INSERT OR IGNORE, or
\* an sqlite error that ends the cycle in the except branch
MarkPosted ==
    /\ bot_pc = "mark"
    /\ marked' = TRUE
    /\ \/ /\ posted' = posted \cup {task}
          /\ bot_pc' = "add"
          /\ cycle_end' = "none"
       \/ /\ posted' = posted
          /\ bot_pc' = "select"
          /\ cycle_end' = "error"
    /\ UNCHANGED <<history_file, store_records, task, bot_article, bot_links,
                   read_dup, read_links, publish_called, published_ok, added,
                   posted_at_start, file_at_start, records_at_start,
                   StoreRest, OtherParts, Published>>

\* history_records = add_article_record(article, get_wp_url(),
\* history_records) (bot.py:113), the save included: the record is appended
\* to the list of main in place (history.py:71), then save_history writes
\* the file, or its mkdir or open raises OSError and the cycle ends in the
\* except branch with the file as it was
AddRecord ==
    /\ bot_pc = "add"
    /\ added' = TRUE
    /\ \E wp_url \in WpUrls :
          LET result == add_article_record(bot_article, wp_url, store_records)
          IN /\ store_records' = result.records
             /\ \/ /\ history_file' =
                         IF result.save
                         THEN [exists |-> TRUE, readable |-> TRUE,
                               text |-> json_dump(result.records)]
                         ELSE history_file
                   /\ cycle_end' = "done"
                \/ /\ result.save
                   /\ history_file' = history_file
                   /\ cycle_end' = "error"
    /\ bot_pc' = "select"
    /\ UNCHANGED <<posted, task, bot_article, bot_links, read_dup, read_links,
                   publish_called, published_ok, marked,
                   posted_at_start, file_at_start, records_at_start,
                   StoreRest, OtherParts, Published>>

NextBot ==
    \/ SelectTask
    \/ GenerateArticle
    \/ CheckDuplicateTitle
    \/ RecommendLinks
    \/ PublishArticle
    \/ MarkPosted
    \/ AddRecord

SpecBot == InitBot /\ [][NextBot]_vars

(***************************************************************************)
(* Properties of the main loop                                             *)
(***************************************************************************)
\* C20: in every cycle the duplicate-title check and the link recommendation
\* have read the history when publish_article is called; mark_posted and
\* add_article_record run only in a cycle whose publish_article call
\* succeeded; when a cycle has ended with a duplicate title or a failed
\* publish, HISTORY_FILE, the list in memory and the posted set are what they
\* were when the cycle began.
C20_HistoryReadBeforePublishWrittenAfter ==
    /\ publish_called => (read_dup /\ read_links)
    /\ marked => (publish_called /\ published_ok)
    /\ added => (publish_called /\ published_ok)
    /\ (posted # posted_at_start
          \/ history_file # file_at_start
          \/ store_records # records_at_start) => published_ok
    /\ cycle_end \in {"duplicate", "publish_failed"} =>
          /\ posted = posted_at_start
          /\ history_file = file_at_start
          /\ store_records = records_at_start
          /\ ~marked
          /\ ~added

\* C20 witness: a cycle that published, marked the task and appended the
\* record, after the two reads.
C20_Witness ==
    /\ cycle_end = "done"
    /\ read_dup
    /\ read_links
    /\ published_ok
    /\ posted # posted_at_start
    /\ Len(store_records) = Len(records_at_start) + 1
    /\ history_file # file_at_start

\* C20 witnesses: a cycle ended by a duplicate title, and one ended by a
\* failed publish, on a history that is not empty
C20_WitnessDuplicate ==
    /\ cycle_end = "duplicate"
    /\ bot_pc = "select"
    /\ store_records # <<>>
    /\ ~publish_called

C20_WitnessPublishFailed ==
    /\ cycle_end = "publish_failed"
    /\ bot_pc = "select"
    /\ store_records # <<>>
    /\ publish_called
    /\ ~published_ok

\* what load_history would give from HISTORY_FILE now
PersistedHistory == load_history(history_file).value

\* C25: between two cycles of the main loop the persisted history equals the
\* list in memory: every append is flushed before the cycle ends, and a flush
\* that failed leaves no record in memory that the persisted store lacks.
C25_PersistedEqualsInMemory ==
    bot_pc = "select" => PersistedHistory = store_records

\* the records of a list that carry a title and a slug
HasRecordOf(records, a) ==
    \E i \in 1..Len(records) :
        /\ dict_get(records[i], "title", None) = a.title
        /\ dict_get(records[i], "slug", None) = a.slug

\* C26: after every cycle in which publish_article succeeded the History
\* Store, in memory and on disk, holds a record with the title and the slug
\* of the published article.
C26_PublishedIsRecorded ==
    (bot_pc = "select" /\ published_ok) =>
        /\ HasRecordOf(store_records, bot_article)
        /\ HasRecordOf(PersistedHistory, bot_article)

\* C27: select_task returns None only when every combination is posted; while
\* an unposted combination exists the call returns one.
C27_NoneOnlyWhenAllPosted ==
    cycle_end = "no_task" => posted = Tasks

\* C29: no two articles published in one run of the main loop have titles
\* that are equal after lower-casing and stripping: an article whose
\* normalized title is that of an article published earlier is skipped
\* before publish.
C29_NoTitlePublishedTwice ==
    ~published_twice

(***************************************************************************)
(* The transliteration inside generate_slug                                *)
(***************************************************************************)
\* the characters of ASCII that texts are built from
AsciiChars ==
    AsciiLower \cup AsciiUpper \cup Digits \cup Whitespace
      \cup {"!", "\"", "#", "$", "%", "&", "'", "(", ")", "*", "+", ",", "-", ".",
            "/", ":", ";", "<", "=", ">", "?", "@", "[", "\\", "]", "^", "_", "{",
            "|", "}", "~"}

\* C23: transliterate_uk returns ASCII-only text for every input and every
\* binding of to_latin: a library result that still holds a Cyrillic letter is
\* replaced by the result of the fallback table.
C23_TransliterationIsAscii ==
    slug_pc # "start"
        => \A i \in 1..Len(transliterated_text) : transliterated_text[i] \in AsciiChars

(***************************************************************************)
(* The html generate_article returns                                       *)
(***************************************************************************)
UKRFIX_COM == <<"u", "k", "r", "f", "i", "x", ".", "c", "o", "m">>

\* C22: the html content of every article generate_article returns holds
\* "ukrfix.com" in some letter case: raw_html is what _clean_html_content
\* gave, cta_html what ensure_cta_block made of it.
C22_HtmlRefersToUkrFix ==
    (content_pc = "ensured" /\ _clean_html_content(raw_html) = raw_html)
        => /\ cta_html = article_html(raw_html)
           /\ str_contains(str_lower(cta_html), UKRFIX_COM)

(***************************************************************************)
(* Callers of database.py                                                  *)
(***************************************************************************)
\* the combination test_database uses and three that differ from it in one
\* column each
Combinations ==
    { [country |-> "Chekhiia", city |-> "Praha", category |-> "Remont kvartyr"],
      [country |-> "Polshcha", city |-> "Praha", category |-> "Remont kvartyr"],
      [country |-> "Chekhiia", city |-> "Brno", category |-> "Remont kvartyr"],
      [country |-> "Chekhiia", city |-> "Praha", category |-> "Elektryk"] }

\* history.db when the process starts: no table yet, an empty one, or one row
\* of an earlier run
InitialTables ==
    {<<>>} \cup {<<c>> : c \in {k \in Combinations : k.city = "Brno"}}

InitDb ==
    /\ db_rows \in InitialTables
    /\ db_pc = "boot"
    /\ db_call = NoCall
    /\ db_marked = {}
    /\ db_before = db_rows
    /\ BlocksIdle
    /\ SlugIdle
    /\ TitleIdle
    /\ HistIdle
    /\ ContentIdle
    /\ StoreIdle
    /\ BotIdle

NotDb == <<slugVars, titleVars, histVars, contentVars, storeVars, botVars, blocksVars>>

\* init_db() at start (bot.py:58, test_components.py:25); sqlite3.Error is
\* logged and raised again
CallInitDb ==
    /\ db_pc = "boot"
    /\ db_before' = db_rows
    /\ \/ /\ db_rows' = init_db(db_rows)
          /\ db_pc' = "ready"
          /\ db_call' = [fn |-> "init_db", key |-> <<>>, raised |-> FALSE,
                         result |-> FALSE]
       \/ /\ db_rows' = db_rows
          /\ db_pc' = "boot"
          /\ db_call' = [fn |-> "init_db", key |-> <<>>, raised |-> TRUE,
                         result |-> FALSE]
    /\ UNCHANGED <<db_marked, NotDb>>

\* is_posted(country, city, category): the answer, or sqlite3.Error raised again
CallIsPosted ==
    /\ db_pc = "ready"
    /\ db_before' = db_rows
    /\ \E k \in Combinations :
          \/ db_call' = [fn |-> "is_posted", key |-> k, raised |-> FALSE,
                         result |-> is_posted(db_rows, k.country, k.city, k.category)]
          \/ db_call' = [fn |-> "is_posted", key |-> k, raised |-> TRUE,
                         result |-> FALSE]
    /\ UNCHANGED <<db_rows, db_pc, db_marked, NotDb>>

\* mark_posted(country, city, category): the insert is committed and the call
\* returns, or sqlite3.Error is raised again and nothing is committed
CallMarkPosted ==
    /\ db_pc = "ready"
    /\ db_before' = db_rows
    /\ \E k \in Combinations :
          \/ /\ db_rows' = mark_posted(db_rows, k.country, k.city, k.category)
             /\ db_marked' = db_marked \cup {k}
             /\ db_call' = [fn |-> "mark_posted", key |-> k, raised |-> FALSE,
                            result |-> FALSE]
          \/ /\ db_rows' = db_rows
             /\ db_marked' = db_marked
             /\ db_call' = [fn |-> "mark_posted", key |-> k, raised |-> TRUE,
                            result |-> FALSE]
    /\ UNCHANGED <<db_pc, NotDb>>

NextDb == CallInitDb \/ CallIsPosted \/ CallMarkPosted

SpecDb == InitDb /\ [][NextDb]_vars

\* the combinations a table holds
RowSet(rows) == {rows[i] : i \in 1..Len(rows)}

\* C21: once mark_posted(country, city, category) has returned, is_posted of
\* the same combination answers True after every later sequence of calls; no
\* call removes a row, and marking a combination the table holds leaves the
\* table as it was.
C21_PostedOnlyGrows ==
    /\ \A k \in db_marked : is_posted(db_rows, k.country, k.city, k.category)
    /\ (db_call.fn = "is_posted" /\ ~db_call.raised /\ db_call.key \in db_marked)
          => db_call.result
    /\ RowSet(db_before) \subseteq RowSet(db_rows)
    /\ (/\ db_call.fn = "mark_posted"
        /\ ~db_call.raised
        /\ is_posted(db_before, db_call.key.country, db_call.key.city,
                     db_call.key.category))
          => db_rows = db_before

\* is_posted answers True for a combination marked before two others were
C21_Witness ==
    /\ db_call.fn = "is_posted"
    /\ ~db_call.raised
    /\ db_call.result
    /\ Len(db_rows) = 4
    /\ db_call.key = db_rows[2]
    /\ db_call.key \in db_marked

\* mark_posted returned for a combination the table held
C21_WitnessMarkedAgain ==
    /\ db_call.fn = "mark_posted"
    /\ ~db_call.raised
    /\ db_call.key \in RowSet(db_before)
    /\ db_rows = db_before
    /\ Len(db_rows) >= 2

(***************************************************************************)
(* Sequences of content_enhancer.py calls on one html                      *)
(***************************************************************************)
MaxCalls == 3

\* '<div class="internal-links">', the opening tag of the block of lines 44-51
links_marker ==
    <<"<", "d", "i", "v", " ", "c", "l", "a", "s", "s", "=", "\"">> \o INTERNAL_LINKS
        \o <<"\"", ">">>

\* how many times sub stands in s
CountOf(s, sub) ==
    Cardinality({i \in 1..(Len(s) - Len(sub) + 1) :
                    s[i] = sub[1] /\ SubSeq(s, i, i + Len(sub) - 1) = sub})

CtaBlocks(s) == CountOf(s, cta_marker)

LinksBlocks(s) == CountOf(s, links_marker)

\* a link whose title is the opening tag of a CTA block
MarkupLink == [title |-> cta_marker, url |-> <<"u">>]

HoldsMarkup(link_list) ==
    \E i \in 1..Len(link_list) :
        \/ CtaBlocks(link_list[i].title) + LinksBlocks(link_list[i].title) > 0
        \/ CtaBlocks(link_list[i].url) + LinksBlocks(link_list[i].url) > 0

\* the link lists of the calls: none, one without url, titles and urls of
\* plain text, and one with markup in a title
BlocksLinkLists ==
    { <<>>,
      <<[title |-> <<"N">>, url |-> <<>>]>>,
      <<[title |-> <<"T">>, url |-> <<"u">>]>>,
      <<[title |-> <<"V">>, url |-> <<"w">>], [title |-> <<"N">>, url |-> <<>>]>>,
      <<MarkupLink>> }

\* html that holds neither block
BlocksStarts ==
    {h \in HtmlTextsUpTo(MaxHtmlAtoms - 1) : CtaBlocks(h) = 0 /\ LinksBlocks(h) = 0}

InitBlocks ==
    /\ blocks_start \in BlocksStarts
    /\ blocks_html = blocks_start
    /\ blocks_calls = 0
    /\ blocks_last = NoBlocksCall
    /\ blocks_markup = FALSE
    /\ SlugIdle
    /\ TitleIdle
    /\ HistIdle
    /\ ContentIdle
    /\ StoreIdle
    /\ BotIdle
    /\ DbIdle

NotBlocks == <<slugVars, titleVars, histVars, contentVars, storeVars, botVars, dbVars>>

\* content = ensure_cta_block(content)
CallEnsureCtaBlock ==
    /\ blocks_calls < MaxCalls
    /\ blocks_html' = ensure_cta_block(blocks_html)
    /\ blocks_calls' = blocks_calls + 1
    /\ blocks_last' = [fn |-> "ensure_cta_block", link_list |-> <<>>,
                       given |-> blocks_html]
    /\ UNCHANGED <<blocks_start, blocks_markup, NotBlocks>>

\* content = inject_internal_links(content, links)
CallInjectInternalLinks ==
    /\ blocks_calls < MaxCalls
    /\ \E link_list \in BlocksLinkLists :
          /\ blocks_html' = inject_internal_links(blocks_html, link_list)
          /\ blocks_last' = [fn |-> "inject_internal_links", link_list |-> link_list,
                             given |-> blocks_html]
          /\ blocks_markup' = (blocks_markup \/ HoldsMarkup(link_list))
    /\ blocks_calls' = blocks_calls + 1
    /\ UNCHANGED <<blocks_start, NotBlocks>>

NextBlocks == CallEnsureCtaBlock \/ CallInjectInternalLinks

SpecBlocks == InitBlocks /\ [][NextBlocks]_vars

\* inject_internal_links gave back what it was given whenever it had no
\* link, no link with a url, or a content with the internal-links marker
InjectNoOp ==
    (/\ blocks_last.fn = "inject_internal_links"
     /\ \/ blocks_last.link_list = <<>>
        \/ \A i \in 1..Len(blocks_last.link_list) :
              dict_get(blocks_last.link_list[i], "url", <<>>) = <<>>
        \/ str_contains(blocks_last.given, INTERNAL_LINKS))
        => blocks_html = blocks_last.given

\* C28 as stated: from html with neither block, after every sequence of
\* ensure_cta_block and inject_internal_links calls with any link lists the
\* content holds at most one CTA block and at most one internal-links block,
\* and inject_internal_links is a no-op in the three cases named.
C28_AtMostOneBlockEachAsStated ==
    /\ CtaBlocks(blocks_html) <= 1
    /\ LinksBlocks(blocks_html) <= 1
    /\ InjectNoOp

\* C28 amended: the same, for calls whose links hold no block markup in their
\* titles and urls.
C28_AtMostOneBlockEach ==
    /\ ~blocks_markup => (CtaBlocks(blocks_html) <= 1 /\ LinksBlocks(blocks_html) <= 1)
    /\ InjectNoOp

\* C28 witness: both blocks stand once after three calls, the last of them
\* an inject_internal_links with a link on content that held the marker
C28_Witness ==
    /\ blocks_calls = 3
    /\ ~blocks_markup
    /\ CtaBlocks(blocks_html) = 1
    /\ LinksBlocks(blocks_html) = 1
    /\ blocks_last.fn = "inject_internal_links"
    /\ link_items(blocks_last.link_list) # <<>>
    /\ LinksBlocks(blocks_last.given) = 1
    /\ blocks_html = blocks_last.given

\* C28 witness: a link title with the opening tag of a CTA block, and two
\* such tags in the content after ensure_cta_block
C28_WitnessMarkup ==
    /\ blocks_markup
    /\ blocks_last.fn = "ensure_cta_block"
    /\ CtaBlocks(blocks_html) = 2

====
